---- MODULE Spec2Model ----
(***************************************************************************)
(* Regression Maker: the data importer, the missing-value handler and the  *)
(* wizard controller (DataViewer) as a state machine.                      *)
(***************************************************************************)
EXTENDS Integers, Sequences, FiniteSets, TLC

(* Largest number of data rows of a generated source file. *)
MaxRows == 3

(***************************************************************************)
(* Cells.  A cell of a pandas table is null (NaN/None), a number or a      *)
(* string; numbers are rationals n/d in lowest terms, so that a mean or a  *)
(* median of integers is exact.                                            *)
(***************************************************************************)
Null == [k |-> "null", n |-> 0, d |-> 1, s |-> ""]

Num(i) == [k |-> "num", n |-> i, d |-> 1, s |-> ""]

Str(t) == [k |-> "str", n |-> 0, d |-> 1, s |-> t]

RECURSIVE Gcd(_, _)
Gcd(a, b) == IF b = 0 THEN a ELSE Gcd(b, a % b)

(* The rational p/q (q > 0), in lowest terms. *)
Frac(p, q) == LET g == Gcd(p, q)
              IN  IF g = 0 THEN Num(0)
                  ELSE [k |-> "num", n |-> p \div g, d |-> q \div g, s |-> ""]

isnull(c) == c.k = "null"

(***************************************************************************)
(* Tables (pandas DataFrame): the column names in order, the set of        *)
(* columns of a numeric dtype, and the rows in order.  NoneDf is Python's  *)
(* None.                                                                   *)
(***************************************************************************)
NoneDf == [none |-> TRUE, cols |-> <<>>, num |-> {}, rows |-> <<>>]

Frame(cols, num, rows) == [none |-> FALSE, cols |-> cols, num |-> num, rows |-> rows]

(* DataFrame.empty: no rows or no columns. *)
empty(t) == Len(t.rows) = 0 \/ Len(t.cols) = 0

Range(q) == {q[i] : i \in DOMAIN q}

ColIdx(t) == 1..Len(t.cols)

RowIdx(t) == 1..Len(t.rows)

(* The values of column j, in row order. *)
Column(rows, j) == [i \in DOMAIN rows |-> rows[i][j]]

(***************************************************************************)
(* Files.  A path is a stem and an extension as written (os.path.splitext);*)
(* a file may exist or not; its body is what is stored in it:              *)
(*   csv     text tokens under a header line                               *)
(*   zero    a file of zero bytes                                          *)
(*   corrupt a CSV whose lines cannot be tokenised                         *)
(*   excel   a sheet of typed cells                                        *)
(*   sqlite  a database with one table, named tname, of typed cells        *)
(*   text    anything else                                                 *)
(***************************************************************************)
Path(stem, ext) == [stem |-> stem, ext |-> ext]

NoPath == Path("", "")

Body(kind, cols, rows, tname) == [kind |-> kind, cols |-> cols, rows |-> rows, tname |-> tname]

NoBody == Body("text", <<>>, <<>>, "")

File(path, exists, body) == [path |-> path, exists |-> exists, body |-> body]

(* str.lower() on the extensions that occur. *)
lower(ext) == CASE ext = ".CSV" -> ".csv"
                [] ext = ".Db" -> ".db"
                [] ext = ".XLSX" -> ".xlsx"
                [] ext = ".TXT" -> ".txt"
                [] OTHER -> ext

(* The numeric tokens of a CSV file and the numbers they denote. *)
NumToks == {"1", "2", "3"}

TokVal(t) == CASE t = "1" -> 1 [] t = "2" -> 2 [] t = "3" -> 3

(* Results of a call: a raised exception (exc # "") or a returned value. *)
Raise(e) == [exc |-> e, val |-> NoneDf]

Return(t) == [exc |-> "", val |-> t]

(***************************************************************************)
(* pd.read_csv with its default arguments: an empty field and the default  *)
(* missing-value markers (NA among them) are nulls; a column all of whose  *)
(* other tokens are numeric is a numeric column of numbers, any other      *)
(* column keeps its tokens as strings.  A header without data rows gives   *)
(* columns of dtype object.                                                *)
(***************************************************************************)
NaToks == {"", "NA"}

CsvNumeric(rows, j) ==
    /\ Len(rows) > 0
    /\ \A i \in DOMAIN rows : rows[i][j].s \in NumToks \cup NaToks

CsvCell(rows, i, j) ==
    LET tok == rows[i][j].s
    IN  IF tok \in NaToks THEN Null
        ELSE IF CsvNumeric(rows, j) THEN Num(TokVal(tok))
        ELSE Str(tok)

read_csv(f) ==
    CASE f.body.kind = "zero" -> Raise("EmptyDataError")
      [] f.body.kind = "csv" ->
            LET b == f.body
            IN  Return(Frame(b.cols,
                             {b.cols[j] : j \in {j \in DOMAIN b.cols : CsvNumeric(b.rows, j)}},
                             [i \in DOMAIN b.rows |->
                                 [j \in DOMAIN b.cols |-> CsvCell(b.rows, i, j)]]))
      [] OTHER -> Raise("ParserError")

(***************************************************************************)
(* Typed sources.  A column is numeric when it holds a number and no       *)
(* string; a column holding only nulls is float64 (numeric) when read from *)
(* a sheet and object when read from a database.  pd.read_excel applies    *)
(* the default missing-value markers to the text cells of a sheet.         *)
(***************************************************************************)
ExcelCell(c) == IF c.k = "str" /\ c.s \in NaToks THEN Null ELSE c

ExcelRows(rows) == [i \in DOMAIN rows |-> [j \in DOMAIN rows[i] |-> ExcelCell(rows[i][j])]]

TypedNumeric(rows, j, allNull) ==
    /\ Len(rows) > 0
    /\ \A i \in DOMAIN rows : rows[i][j].k # "str"
    /\ allNull \/ \E i \in DOMAIN rows : rows[i][j].k = "num"

read_excel_file(f) ==
    IF f.body.kind = "excel"
    THEN LET b == f.body
             rows == ExcelRows(b.rows)
         IN  Return(Frame(b.cols,
                          {b.cols[j] : j \in {j \in DOMAIN b.cols : TypedNumeric(rows, j, TRUE)}},
                          rows))
    ELSE Raise("BadZipFile")

(* The table the fixed query of _read_sqlite reads. *)
QueryTable == "test_table"

read_sqlite(f) ==
    IF f.body.kind = "sqlite" /\ f.body.tname = QueryTable
    THEN LET b == f.body
         IN  Return(Frame(b.cols,
                          {b.cols[j] : j \in {j \in DOMAIN b.cols : TypedNumeric(b.rows, j, FALSE)}},
                          b.rows))
    ELSE Raise("DatabaseError")

(***************************************************************************)
(* import_data: FileNotFoundError for a path that does not exist, then the *)
(* reader chosen by the lower-cased extension; EmptyDataError and          *)
(* ParserError are re-raised as ValueError, every other exception of a     *)
(* reader propagates.                                                      *)
(***************************************************************************)
SupportedExts == {".csv", ".xlsx", ".xls", ".sqlite", ".db"}

import_data_case_sensitive(f) ==
    IF ~f.exists THEN Raise("FileNotFoundError")
    ELSE LET file_ext == f.path.ext
             r == CASE file_ext = ".csv" -> read_csv(f)
                    [] file_ext \in {".xlsx", ".xls"} -> read_excel_file(f)
                    [] file_ext \in {".sqlite", ".db"} -> read_sqlite(f)
                    [] OTHER -> Raise("ValueError")
         IN  IF r.exc \in {"EmptyDataError", "ParserError"} THEN Raise("ValueError") ELSE r

import_data_unchecked_path(f) ==
    LET file_ext == lower(f.path.ext)
        r == CASE file_ext = ".csv" -> read_csv(f)
               [] file_ext \in {".xlsx", ".xls"} -> read_excel_file(f)
               [] file_ext \in {".sqlite", ".db"} -> read_sqlite(f)
               [] OTHER -> Raise("ValueError")
    IN  IF r.exc \in {"EmptyDataError", "ParserError"} THEN Raise("ValueError") ELSE r

import_data(f) ==
    IF ~f.exists THEN Raise("FileNotFoundError")
    ELSE LET file_ext == lower(f.path.ext)
             r == CASE file_ext = ".csv" -> read_csv(f)
                    [] file_ext \in {".xlsx", ".xls"} -> read_excel_file(f)
                    [] file_ext \in {".sqlite", ".db"} -> read_sqlite(f)
                    [] OTHER -> Raise("ValueError")
         IN  IF r.exc \in {"EmptyDataError", "ParserError"} THEN Raise("ValueError") ELSE r

(***************************************************************************)
(* The connection of _read_sqlite.  sqlite3.connect opens it for every     *)
(* existing path; leaving the with block commits or rolls back and does    *)
(* not close.  The connection is closed when its object is freed: at a     *)
(* normal return the frame that holds it is dropped, after a raise the     *)
(* traceback of the exception keeps the frame, and so the connection, for  *)
(* as long as the caller holds the exception.                              *)
(***************************************************************************)
connects(f) == f.exists /\ lower(f.path.ext) \in {".sqlite", ".db"}

(* The connections still open when import_data(f) has returned or raised. *)
connections_left(f) == IF connects(f) /\ import_data(f).exc # "" THEN {f.path} ELSE {}

(***************************************************************************)
(* Missing values: DataFrame.isnull().sum(), DataFrame.dropna() and        *)
(* sklearn's SimpleImputer on the numeric columns.                         *)
(***************************************************************************)
RECURSIVE SumSeq(_)
SumSeq(q) == IF q = <<>> THEN 0 ELSE Head(q) + SumSeq(Tail(q))

(* df.isnull().sum(): the number of null cells of each column. *)
isnull_sum(t) ==
    [j \in ColIdx(t) |-> Cardinality({i \in RowIdx(t) : isnull(t.rows[i][j])})]

RowHasNull(r) == \E j \in DOMAIN r : isnull(r[j])

HasNull(t) == \E i \in RowIdx(t) : RowHasNull(t.rows[i])

KeepRow(r) == ~RowHasNull(r)

RowNotAllNull(r) == \E j \in DOMAIN r : ~isnull(r[j])

dropna_how_all(t) == Frame(t.cols, t.num, SelectSeq(t.rows, RowNotAllNull))

(* df.dropna(): the rows without a null, in their order. *)
dropna(t) == Frame(t.cols, t.num, SelectSeq(t.rows, KeepRow))

RatLess(a, b) == a.n * b.d < b.n * a.d

RatAdd(a, b) == Frac(a.n * b.d + b.n * a.d, a.d * b.d)

RECURSIVE RatSum(_)
RatSum(q) == IF q = <<>> THEN Num(0) ELSE RatAdd(Head(q), RatSum(Tail(q)))

RECURSIVE Insert(_, _)
Insert(x, q) == IF q = <<>> THEN <<x>>
                ELSE IF RatLess(Head(q), x) THEN <<Head(q)>> \o Insert(x, Tail(q))
                ELSE <<x>> \o q

RECURSIVE Sorted(_)
Sorted(q) == IF q = <<>> THEN <<>> ELSE Insert(Head(q), Sorted(Tail(q)))

NotNull(c) == ~isnull(c)

(* The non-null values of a column (at least one), and their statistics. *)
Mean(q) == LET s == RatSum(q) IN Frac(s.n, s.d * Len(q))

Median(q) == LET o == Sorted(q)
                 h == Len(q) \div 2
             IN  IF Len(q) % 2 = 1 THEN o[h + 1]
                 ELSE LET s == RatAdd(o[h], o[h + 1]) IN Frac(s.n, s.d * 2)

Statistic(strategy, q, value) ==
    CASE strategy = "mean" -> Mean(q)
      [] strategy = "median" -> Median(q)
      [] OTHER -> value

(* select_dtypes(include=["number"]).columns, as column positions. *)
num_cols(t) == {j \in ColIdx(t) : t.cols[j] \in t.num}

AllNull(t, j) == \A i \in RowIdx(t) : isnull(t.rows[i][j])

(* An imputer that would fill the nulls of every column. *)
impute_every_column(t, strategy, value) ==
    IF num_cols(t) = {} \/ Len(t.rows) = 0 THEN Raise("ValueError")
    ELSE IF strategy # "constant" /\ \E j \in num_cols(t) : AllNull(t, j)
    THEN Raise("ValueError")
    ELSE Return(Frame(t.cols, t.num,
            [i \in RowIdx(t) |->
                [j \in ColIdx(t) |->
                    IF isnull(t.rows[i][j]) THEN Num(0) ELSE t.rows[i][j]]]))

(***************************************************************************)
(* df[num_cols] = SimpleImputer(strategy).fit_transform(df[num_cols]).     *)
(* The imputer rejects a table without a numeric column or without a row   *)
(* (ValueError); with the mean and median strategies it drops a column     *)
(* that holds only nulls, and the assignment of the narrower array then    *)
(* raises ValueError.  Otherwise each null of a numeric column becomes the *)
(* column's statistic; nothing else changes.                               *)
(***************************************************************************)
impute(t, strategy, value) ==
    IF num_cols(t) = {} \/ Len(t.rows) = 0 THEN Raise("ValueError")
    ELSE IF strategy # "constant" /\ \E j \in num_cols(t) : AllNull(t, j)
    THEN Raise("ValueError")
    ELSE Return(Frame(t.cols, t.num,
            [i \in RowIdx(t) |->
                [j \in ColIdx(t) |->
                    IF j \in num_cols(t) /\ isnull(t.rows[i][j])
                    THEN Statistic(strategy, SelectSeq(Column(t.rows, j), NotNull), value)
                    ELSE t.rows[i][j]]]))

(***************************************************************************)
(* linear_regression, as far as the wizard's state depends on it: it       *)
(* label-encodes every non-numeric column of the table it is given, in     *)
(* place, and then fits on data[input_columns] and data[output_columns].   *)
(***************************************************************************)
(* astype(str) of a cell of an object column: a null, an integer or a text. *)
astype_str(c) == IF isnull(c) THEN "nan" ELSE IF c.k = "num" THEN ToString(c.n) ELSE c.s

(* Python's order of the strings that occur. *)
StrPos(t) == CASE t = "1" -> 1 [] t = "2" -> 2 [] t = "3" -> 3
               [] t = "nan" -> 4 [] t = "p" -> 5 [] t = "q" -> 6 [] OTHER -> 7

(* An encoder that would number the sorted values from the largest down. *)
LabelCode_descending(col, c) ==
    Cardinality({StrPos(astype_str(x)) : x \in Range(col)}
                    \ (1..StrPos(astype_str(c))))

(* LabelEncoder.fit_transform: the rank among the sorted distinct values. *)
LabelCode(col, c) ==
    Cardinality({StrPos(astype_str(x)) : x \in Range(col)} \cap (1..(StrPos(astype_str(c)) - 1)))

label_encode(t) ==
    Frame(t.cols, Range(t.cols),
          [i \in RowIdx(t) |->
              [j \in ColIdx(t) |->
                  IF j \in num_cols(t) THEN t.rows[i][j]
                  ELSE Num(LabelCode(Column(t.rows, j), t.rows[i][j]))]])

ColPos(t, c) == CHOOSE j \in ColIdx(t) : t.cols[j] = c

(* The exception linear_regression raises on the encoded table, "" if none. *)
fit_error(t, input_columns, output_columns) ==
    IF ~(Range(input_columns) \cup Range(output_columns) \subseteq Range(t.cols))
    THEN "KeyError"
    ELSE IF \/ input_columns = <<>> \/ output_columns = <<>>
            \/ Len(t.rows) < 2
            \/ \E c \in Range(input_columns) \cup Range(output_columns) :
                   \E i \in RowIdx(t) : isnull(t.rows[i][ColPos(t, c)])
    THEN "ValueError"
    ELSE ""

(***************************************************************************)
(* Exact arithmetic on the numeric cells, as used by the least-squares fit *)
(* and the metrics.                                                        *)
(***************************************************************************)
(* F(e), with e computed once. *)
Let(e, F(_)) == CHOOSE r \in {F(v) : v \in {e}} : TRUE

RatSub(a, b) == Frac(a.n * b.d - b.n * a.d, a.d * b.d)

RatMul(a, b) == Frac(a.n * b.n, a.d * b.d)

(* a / b for b # 0. *)
RatDiv(a, b) == IF b.n > 0 THEN Frac(a.n * b.d, a.d * b.n)
                ELSE Frac((0 - a.n) * b.d, a.d * (0 - b.n))

Dot(u, v) == RatSum([i \in DOMAIN u |-> RatMul(u[i], v[i])])

Centered(q) == [i \in DOMAIN q |-> RatSub(q[i], Mean(q))]

(***************************************************************************)
(* LinearRegression().fit(X, y): ordinary least squares with an intercept, *)
(* the minimum-norm solution when the centred columns are dependent.  X is *)
(* a sequence of rows of one or two features (at least one row).           *)
(***************************************************************************)
coef_(X, y) ==
    LET yc == Centered(y)
        c1 == Centered(Column(X, 1))
        a  == Dot(c1, c1)
        u  == Dot(c1, yc)
    IN  IF Len(X[1]) = 1
        THEN <<IF a.n = 0 THEN Num(0) ELSE RatDiv(u, a)>>
        ELSE LET c2  == Centered(Column(X, 2))
                 b   == Dot(c1, c2)
                 c   == Dot(c2, c2)
                 v   == Dot(c2, yc)
                 det == RatSub(RatMul(a, c), RatMul(b, b))
                 tr  == RatAdd(a, c)
             IN  IF det.n # 0
                 THEN <<RatDiv(RatSub(RatMul(c, u), RatMul(b, v)), det),
                        RatDiv(RatSub(RatMul(a, v), RatMul(b, u)), det)>>
                 ELSE IF tr.n = 0 THEN <<Num(0), Num(0)>>
                 ELSE <<RatDiv(u, tr), RatDiv(v, tr)>>

intercept_(X, y, coef) ==
    RatSub(Mean(y), Dot(coef, [j \in DOMAIN coef |-> Mean(Column(X, j))]))

(* A model that has not been fitted (None). *)
NoModel == [fitted |-> FALSE, intercept |-> Num(0), coef |-> <<>>, feature_names |-> <<>>]

(* names: the column names of X when X is a DataFrame, <<>> when it is not. *)
fit(X, y, names) ==
    LET coef == coef_(X, y)
    IN  [fitted |-> TRUE, intercept |-> intercept_(X, y, coef), coef |-> coef,
         feature_names |-> names]

(* model.predict on one row of feature values. *)
predict(model, row) == RatAdd(model.intercept, Dot(model.coef, row))

mean_squared_error(y_true, y_pred) ==
    LET e == [i \in DOMAIN y_true |-> RatSub(y_true[i], y_pred[i])]
    IN  Mean([i \in DOMAIN e |-> RatMul(e[i], e[i])])

(* r2_score: not a number for fewer than two samples; with a constant      *)
(* y_true it is 1 for a perfect prediction and 0 otherwise.                *)
r2_score(y_true, y_pred) ==
    LET e   == [i \in DOMAIN y_true |-> RatSub(y_true[i], y_pred[i])]
        res == Dot(e, e)
        tot == Dot(Centered(y_true), Centered(y_true))
    IN  IF Len(y_true) < 2 THEN Null
        ELSE IF tot.n # 0 THEN RatSub(Num(1), RatDiv(res, tot))
        ELSE IF res.n = 0 THEN Num(1) ELSE Num(0)

(***************************************************************************)
(* train_test_split(x, y, test_size=0.2, random_state=42) on n >= 2 rows.  *)
(* ShuffleSplit draws RandomState(42).permutation(n); the first            *)
(* ceil(0.2 n) entries index the test rows, the others the training rows.  *)
(***************************************************************************)
permutation(n) ==
    CASE n = 2 -> <<2, 1>>
      [] n = 3 -> <<1, 2, 3>>
      [] n = 4 -> <<2, 4, 1, 3>>
      [] n = 5 -> <<2, 5, 3, 1, 4>>
      [] n = 6 -> <<1, 2, 6, 3, 5, 4>>
      [] n = 7 -> <<1, 2, 6, 3, 5, 4, 7>>
      [] n = 8 -> <<2, 6, 1, 8, 3, 5, 4, 7>>
      [] OTHER -> [i \in 1..n |-> i]

n_test(n) == (n + 4) \div 5

(* A split that would draw from numpy's global generator, in state g. *)
train_test_split_unseeded(n, g) ==
    LET p == IF g = 0 THEN permutation(n) ELSE [i \in 1..n |-> n + 1 - i]
    IN  [test |-> SubSeq(p, 1, n_test(n)), train |-> SubSeq(p, n_test(n) + 1, n)]

(* A split that would hold out the last row only. *)
train_test_split_last(n, g) ==
    [test |-> <<n>>, train |-> [i \in 1..(n - 1) |-> i]]

(* g is the state of numpy's global generator, which the seeded call does *)
(* not read.                                                               *)
train_test_split(n, g) ==
    LET p == permutation(n)
    IN  [test |-> SubSeq(p, 1, n_test(n)), train |-> SubSeq(p, n_test(n) + 1, n)]

(* The elements of q at the positions idx, in the order of idx. *)
take(q, idx) == [k \in DOMAIN idx |-> q[idx[k]]]

(***************************************************************************)
(* Formatting.  f"{v:.2f}" of a number (round half to even on the exact    *)
(* value) and str() of a column argument: a name, or a list of names.      *)
(***************************************************************************)
format_2f(r) ==
    LET an   == IF r.n < 0 THEN 0 - r.n ELSE r.n
        q    == (100 * an) \div r.d
        rem  == (100 * an) % r.d
        h    == IF 2 * rem > r.d \/ (2 * rem = r.d /\ q % 2 = 1) THEN q + 1 ELSE q
        frac == h % 100
    IN  (IF r.n < 0 THEN "-" ELSE "") \o ToString(h \div 100) \o "."
            \o (IF frac < 10 THEN "0" ELSE "") \o ToString(frac)

(* A column argument: a str, or a list of str. *)
PyStr(name) == [list |-> FALSE, names |-> <<name>>]

PyList(names) == [list |-> TRUE, names |-> names]

RECURSIVE repr_items(_)
repr_items(names) ==
    IF names = <<>> THEN ""
    ELSE "'" \o Head(names) \o "'"
         \o (IF Len(names) > 1 THEN ", " ELSE "") \o repr_items(Tail(names))

py_str(obj) == IF obj.list THEN "[" \o repr_items(obj.names) \o "]" ELSE obj.names[1]

(***************************************************************************)
(* linear_regression(data, input_columns, output_columns).  data is        *)
(* encoded in place before anything can fail, so the result carries the    *)
(* table as the call leaves it.  input_columns is a list of names;         *)
(* output_columns is a name or a list with one name.                       *)
(***************************************************************************)
NoFit == [formula |-> "", mse |-> Null, r2 |-> Null, x_test |-> <<>>, y_test |-> <<>>,
          predictions |-> <<>>, model |-> NoModel]

(* data[input_columns] as rows of feature values. *)
features(t, input_columns) ==
    [i \in RowIdx(t) |->
        [k \in DOMAIN input_columns |-> t.rows[i][ColPos(t, input_columns[k])]]]

RECURSIVE terms(_, _)
terms(coef, input_columns) ==
    IF coef = <<>> THEN ""
    ELSE " + (" \o format_2f(Head(coef)) \o ") * " \o Head(input_columns)
         \o terms(Tail(coef), Tail(input_columns))

formula(output_columns, model, input_columns) ==
    py_str(output_columns) \o " = " \o format_2f(model.intercept)
        \o terms(model.coef, input_columns)

linear_regression(data, input_columns, output_columns, g) ==
    Let(label_encode(data), LAMBDA enc :
    Let(fit_error(enc, input_columns, output_columns.names), LAMBDA err :
    IF err # "" THEN [exc |-> err, data |-> enc, val |-> NoFit]
    ELSE
    Let(features(enc, input_columns), LAMBDA x :
    Let(Column(enc.rows, ColPos(enc, output_columns.names[1])), LAMBDA y :
    Let(train_test_split(Len(enc.rows), g), LAMBDA s :
    Let(fit(take(x, s.train), take(y, s.train), input_columns), LAMBDA model :
    Let([k \in DOMAIN s.test |-> predict(model, x[s.test[k]])], LAMBDA preds :
        [exc |-> "", data |-> enc,
         val |-> [formula     |-> formula(output_columns, model, input_columns),
                  mse         |-> mean_squared_error(take(y, s.test), preds),
                  r2          |-> r2_score(take(y, s.test), preds),
                  x_test      |-> take(x, s.test),
                  y_test      |-> take(y, s.test),
                  predictions |-> preds,
                  model       |-> model]])))))))

(***************************************************************************)
(* Model artifacts.  A bundle is a dict from keys to values; joblib.dump   *)
(* (or pickle.dump) writes it as a stream of key/value entries and         *)
(* joblib.load rebuilds the dict from the stream.  A Python value returned *)
(* by the loader is None, a dict or an estimator.                          *)
(***************************************************************************)
PyNone == [type |-> "NoneType", dict |-> <<>>, model |-> NoModel]

PyDict(d) == [type |-> "dict", dict |-> d, model |-> NoModel]

KeyOrder == <<"model", "formula", "r_squared", "mse", "input_columns", "output_column",
              "description", "graph">>

(* A serializer that would not write the model. *)
dump_without_model(obj) ==
    LET ks == SelectSeq(KeyOrder, LAMBDA k : k \in DOMAIN obj /\ k # "model")
    IN  [i \in DOMAIN ks |-> <<ks[i], obj[ks[i]]>>]

dump(obj) ==
    LET ks == SelectSeq(KeyOrder, LAMBDA k : k \in DOMAIN obj)
    IN  [i \in DOMAIN ks |-> <<ks[i], obj[ks[i]]>>]

load(entries) ==
    [k \in {entries[i][1] : i \in DOMAIN entries} |->
        entries[CHOOSE i \in DOMAIN entries : entries[i][1] = k][2]]

(* dict.get(key, default). *)
get(d, key, default) == IF key \in DOMAIN d THEN d[key] ELSE default

(* A file of the model directory: absent, unreadable as a pickle, or a     *)
(* pickle stream; a path in a read-only place cannot be written.           *)
NoArtifact == [exists |-> FALSE, writable |-> TRUE, valid |-> FALSE, entries |-> <<>>]

Artifact(entries) == [exists |-> TRUE, writable |-> TRUE, valid |-> TRUE, entries |-> entries]

(* The bundle test_model_loading pickles: a model fitted on y = 2x. *)
TestBundle ==
    [model         |-> fit(<< <<Num(1)>>, <<Num(2)>>, <<Num(3)>> >>,
                           <<Num(2), Num(4), Num(6)>>, <<>>),
     input_columns |-> <<"x">>,
     output_column |-> PyStr("y")]

InitArtifacts ==
    [p \in {"model.joblib", "saved.joblib", "broken.joblib", "locked.joblib"} |->
        CASE p = "model.joblib" -> Artifact(dump(TestBundle))
          [] p = "broken.joblib" -> [NoArtifact EXCEPT !.exists = TRUE]
          [] p = "locked.joblib" -> [NoArtifact EXCEPT !.writable = FALSE]
          [] OTHER -> NoArtifact]

(* No call of ModelLoader.load_model yet. *)
NotLoaded == [path |-> "", test_mode |-> FALSE, ret |-> PyNone, message |-> ""]

(* No direct call of linear_regression yet: the arguments of the call to   *)
(* come, the table as given, and the result of the last call.              *)
Arguments(data, input_columns, output_columns) ==
    [calls |-> 0, given |-> data, data |-> data, input_columns |-> input_columns,
     output_columns |-> output_columns, exc |-> "", val |-> NoFit]

NoRegression == Arguments(NoneDf, <<>>, PyList(<<>>))

(***************************************************************************)
(* DataViewer.  The widget's attributes and the state of the widgets that  *)
(* decide which actions are available.  nan_data is not set by __init__.   *)
(***************************************************************************)
(* A matplotlib figure, or None. *)
NoGraph == [none |-> TRUE, y_test |-> <<>>, predictions |-> <<>>]

plot_regression_graph(y_test, predictions) ==
    [none |-> FALSE, y_test |-> y_test, predictions |-> predictions]

(* No ResultWindow yet; warning tells whether the window warned that no    *)
(* graph can be drawn.                                                     *)
NoWindow ==
    [open |-> FALSE, input_columns |-> <<>>, output_column |-> <<>>, model |-> NoModel,
     formula |-> "", mse |-> Null, r_squared |-> Null, graph |-> NoGraph, warning |-> FALSE,
     text_box |-> <<>>, predicted_value_output |-> ""]

(* No ModelWindow yet; model_data is the bundle the window was built from. *)
NoModelWindow ==
    [open |-> FALSE, model_data |-> PyNone, model |-> NoModel, input_columns |-> <<>>,
     description |-> <<>>, predicted_value_output |-> ""]

InitViewer ==
    [ df                   |-> NoneDf,
      last_file_path       |-> NoPath,
      input_columns        |-> <<>>,
      output_column        |-> <<>>,
      empty_values         |-> FALSE,
      data_table           |-> NoneDf,
      table_is_df          |-> FALSE,
      nan_solved           |-> FALSE,
      nan_data             |-> "unset",
      missing_data         |-> <<>>,
      move                 |-> 1,
      welcome_visible      |-> TRUE,
      next_enabled         |-> FALSE,
      return_enabled       |-> TRUE,
      load_button_visible  |-> FALSE,
      back_button_visible  |-> FALSE,
      options_enabled      |-> TRUE,
      option_index         |-> 0,
      apply_enabled        |-> FALSE,
      selector_items       |-> <<>>,
      result_window        |-> NoWindow,
      model_window         |-> NoModelWindow,
      crashed              |-> FALSE,
      message              |-> "" ]

(* QComboBox.setCurrentIndex with the slot preprocessing_button. *)
preprocessing_button(v) == [v EXCEPT !.apply_enabled = (v.option_index # 0)]

setCurrentIndex(v, i) ==
    IF v.option_index = i THEN v
    ELSE preprocessing_button([v EXCEPT !.option_index = i])

(* steps_guide reads nan_data at step 2; an attribute never set raises. *)
steps_guide(v) ==
    IF v.move = 2
    THEN IF v.nan_data = "unset" THEN [v EXCEPT !.crashed = TRUE]
         ELSE [v EXCEPT !.next_enabled = (v.nan_data # "True")]
    ELSE v

(* drive_through with step 1 offering Next whether or not a table is shown. *)
drive_through_always_next(v) ==
    LET g == steps_guide(v)
    IN  IF g.crashed THEN g
        ELSE CASE v.move = 1 ->
                    [g EXCEPT !.return_enabled = FALSE,
                              !.load_button_visible = g.data_table.none,
                              !.back_button_visible = ~g.data_table.none,
                              !.next_enabled = TRUE]
               [] v.move = 2 ->
                    [g EXCEPT !.return_enabled = TRUE, !.load_button_visible = FALSE,
                              !.back_button_visible = FALSE, !.next_enabled = g.nan_solved]
               [] v.move = 3 ->
                    [g EXCEPT !.return_enabled = TRUE, !.load_button_visible = FALSE,
                              !.back_button_visible = FALSE, !.next_enabled = FALSE]
               [] OTHER ->
                    [v EXCEPT !.load_button_visible = FALSE, !.back_button_visible = FALSE]

drive_through(v) ==
    LET g == steps_guide(v)
    IN  IF g.crashed THEN g
        ELSE CASE v.move = 1 ->
                    IF g.data_table.none
                    THEN [g EXCEPT !.return_enabled = FALSE, !.load_button_visible = TRUE,
                                   !.back_button_visible = FALSE, !.next_enabled = FALSE]
                    ELSE [g EXCEPT !.return_enabled = FALSE, !.load_button_visible = FALSE,
                                   !.back_button_visible = TRUE, !.next_enabled = TRUE]
               [] v.move = 2 ->
                    [g EXCEPT !.return_enabled = TRUE, !.load_button_visible = FALSE,
                              !.back_button_visible = FALSE, !.next_enabled = g.nan_solved]
               [] v.move = 3 ->
                    [g EXCEPT !.return_enabled = TRUE, !.load_button_visible = FALSE,
                              !.back_button_visible = FALSE, !.next_enabled = FALSE]
               [] OTHER ->
                    [v EXCEPT !.load_button_visible = FALSE, !.back_button_visible = FALSE]

delete_welcome(v) == drive_through([v EXCEPT !.welcome_visible = FALSE])

(* The step after next() and after back(). *)
next_move_ignoring_flag(move, empty_values) ==
    IF move < 3 THEN move + 2 ELSE move

next_move_by_one(move, empty_values) ==
    IF move < 3 THEN move + 1 ELSE move

next_move(move, empty_values) ==
    IF move < 3 THEN (IF empty_values THEN move + 1 ELSE move + 2) ELSE move

back_move(move, empty_values) ==
    IF move > 1 THEN (IF empty_values THEN move - 1 ELSE move - 2) ELSE move

next(v) == IF v.move < 3
           THEN drive_through([v EXCEPT !.move = next_move(v.move, v.empty_values)])
           ELSE v

back(v) == IF v.move > 1
           THEN drive_through([v EXCEPT !.move = back_move(v.move, v.empty_values)])
           ELSE v

(* Table(self.df) shown in the view; the model holds the table object itself. *)
display_data_in_table(v) ==
    [v EXCEPT !.data_table = v.df, !.table_is_df = TRUE, !.next_enabled = TRUE,
              !.load_button_visible = FALSE, !.back_button_visible = (v.move = 1)]

(* An assignment into the columns of self.df: every holder of the object sees it. *)
set_in_place(v, t) ==
    [v EXCEPT !.df = t, !.data_table = IF v.table_is_df THEN t ELSE v.data_table]

detect_missing_values_first_column(v) ==
    IF v.df.none THEN v
    ELSE LET m == [v EXCEPT !.missing_data = isnull_sum(v.df)]
         IN  IF m.missing_data[1] # 0
             THEN [setCurrentIndex(m, 0) EXCEPT !.empty_values = TRUE, !.nan_data = "True",
                                                !.options_enabled = TRUE,
                                                !.message = "empty_values_detected"]
             ELSE [m EXCEPT !.empty_values = FALSE]

(* detect_missing_values without the assignment of nan_data. *)
detect_missing_values_without_nan_data(v) ==
    IF v.df.none THEN v
    ELSE LET m == [v EXCEPT !.missing_data = isnull_sum(v.df)]
         IN  IF SumSeq(m.missing_data) # 0
             THEN [setCurrentIndex(m, 0) EXCEPT !.empty_values = TRUE,
                                                !.options_enabled = TRUE,
                                                !.message = "empty_values_detected"]
             ELSE [m EXCEPT !.empty_values = FALSE]

detect_missing_values(v) ==
    IF v.df.none THEN v
    ELSE LET m == [v EXCEPT !.missing_data = isnull_sum(v.df)]
         IN  IF SumSeq(m.missing_data) # 0
             THEN [setCurrentIndex(m, 0) EXCEPT !.empty_values = TRUE, !.nan_data = "True",
                                                !.options_enabled = TRUE,
                                                !.message = "empty_values_detected"]
             ELSE [m EXCEPT !.empty_values = FALSE]

populate_selectors(v) == [v EXCEPT !.selector_items = v.df.cols]

load_data(v, f) ==
    LET r == import_data(f)
    IN  IF r.exc # "" THEN [v EXCEPT !.message = "load_error"]
        ELSE LET w == [v EXCEPT !.df = r.val, !.table_is_df = FALSE]
             IN  IF ~empty(r.val)
                 THEN populate_selectors(detect_missing_values(display_data_in_table(w)))
                 ELSE [w EXCEPT !.message = "load_empty"]

(* f is the file chosen in the dialog; again is the answer to "load it again?". *)
open_file_dialog(v, f, again) ==
    IF v.last_file_path = f.path
    THEN IF again THEN load_data(v, f) ELSE v
    ELSE load_data([v EXCEPT !.last_file_path = f.path], f)

confirm_selection(v, selected_features, selected_target) ==
    [v EXCEPT !.input_columns = selected_features, !.output_column = selected_target,
              !.message = IF selected_features = <<>> \/ selected_target = <<>>
                          THEN "incomplete_selection" ELSE "selection_confirmed"]

(* The entries of the pre-processing combo box, by index. *)
OptionText(i) == CASE i = 1 -> "Remove Rows with Missing Values"
                   [] i = 2 -> "Fill with Mean"
                   [] i = 3 -> "Fill with Median"
                   [] i = 4 -> "Fill with a Constant Value"
                   [] OTHER -> "Select an option..."

Options == {0, 1, 2, 3, 4}

remove_missing_values(v) ==
    IF v.df.none THEN Return(v)
    ELSE Return([display_data_in_table([v EXCEPT !.df = dropna(v.df)])
                    EXCEPT !.message = "rows_removed"])

(* fill_with_mean, fill_with_median and, once the value is confirmed, *)
(* fill_with_constant. *)
fill_with(v, strategy, value) ==
    IF v.df.none THEN Return(v)
    ELSE LET r == impute(v.df, strategy, value)
         IN  IF r.exc # "" THEN Raise(r.exc)
             ELSE Return([display_data_in_table(set_in_place(v, r.val))
                             EXCEPT !.message = "filled"])

fill_with_mean(v) == fill_with(v, "mean", Null)

fill_with_median(v) == fill_with(v, "median", Null)

(* value, ok: what QInputDialog.getDouble returns. *)
fill_with_constant(v, value, ok) ==
    IF ok THEN fill_with(v, "constant", value) ELSE Return(v)

(* The part of confirm_preprocessing after the strategy has returned. *)
mark_solved(v) ==
    display_data_in_table([v EXCEPT !.nan_data = "False", !.next_enabled = TRUE,
                                    !.nan_solved = TRUE, !.options_enabled = FALSE,
                                    !.apply_enabled = FALSE])

confirm_preprocessing(v, value, ok) ==
    LET option == OptionText(v.option_index)
        r == CASE option = "Remove Rows with Missing Values" -> remove_missing_values(v)
               [] option = "Fill with Mean" -> fill_with_mean(v)
               [] option = "Fill with Median" -> fill_with_median(v)
               [] option = "Fill with a Constant Value" -> fill_with_constant(v, value, ok)
               [] OTHER -> Return(v)
    IN  IF r.exc # "" THEN [v EXCEPT !.message = "preprocessing_error"]
        ELSE mark_solved(r.val)

(* A window that would draw the graph whatever the number of inputs. *)
display_graph_always(input_columns, y_test, predictions) ==
    plot_regression_graph(y_test, predictions)

(* The graph display_results stores: drawn for a single input only. *)
display_graph(input_columns, y_test, predictions) ==
    IF Len(input_columns) = 1 THEN plot_regression_graph(y_test, predictions) ELSE NoGraph

(* ResultWindow(data, input_columns, output_column): __init__ and           *)
(* display_results; val is what linear_regression returned.                *)
ResultWindow(input_columns, output_column, val) ==
    [open |-> TRUE, input_columns |-> input_columns, output_column |-> output_column,
     model |-> val.model, formula |-> val.formula, mse |-> val.mse, r_squared |-> val.r2,
     graph |-> display_graph(input_columns, val.y_test, val.predictions),
     warning |-> (Len(input_columns) # 1),
     text_box |-> <<>>, predicted_value_output |-> ""]

(* A handler that would let the exception of the regression escape. *)
show_results_uncaught(v) ==
    IF v.df.none THEN [v EXCEPT !.crashed = TRUE]
    ELSE Let(linear_regression(v.df, v.input_columns, PyList(v.output_column), 0), LAMBDA r :
         IF r.exc # "" THEN [v EXCEPT !.crashed = TRUE]
         ELSE [set_in_place(v, r.data) EXCEPT
                  !.message = "model_created",
                  !.result_window = ResultWindow(v.input_columns, v.output_column, r.val)])

(* ResultWindow(self.df, ...) runs linear_regression on the viewer's table; *)
(* the seeded split reads no generator state, 0 stands for any.            *)
show_results(v) ==
    IF v.df.none THEN [v EXCEPT !.message = "model_error"]
    ELSE Let(linear_regression(v.df, v.input_columns, PyList(v.output_column), 0), LAMBDA r :
         IF r.exc # "" THEN [set_in_place(v, r.data) EXCEPT !.message = "model_error"]
         ELSE [set_in_place(v, r.data) EXCEPT
                  !.message = "model_created",
                  !.result_window = ResultWindow(v.input_columns, v.output_column, r.val)])

(***************************************************************************)
(* Saving and loading a model, and predicting in a window.                 *)
(***************************************************************************)
(* A text is a sequence of words and whitespace characters.  str.strip()   *)
(* removes the whitespace at both ends.                                    *)
Whitespace == {" ", "\t", "\n"}

RECURSIVE lstrip(_)
lstrip(text) ==
    IF text # <<>> /\ Head(text) \in Whitespace THEN lstrip(Tail(text)) ELSE text

RECURSIVE rstrip(_)
rstrip(text) ==
    IF text # <<>> /\ text[Len(text)] \in Whitespace
    THEN rstrip(SubSeq(text, 1, Len(text) - 1)) ELSE text

(* A strip that would remove the leading whitespace only. *)
strip_leading(text) == lstrip(text)

strip(text) == rstrip(lstrip(text))

(* ModelSaver(...).save_model(file_path), with the fields ResultWindow.save_model *)
(* passes; art is the model directory.                                     *)
save_model(win, art, file_path) ==
    LET description == IF strip(win.text_box) # <<>> THEN strip(win.text_box)
                       ELSE <<"No", " ", "description", " ", "provided.">>
        model_data  == [model         |-> win.model,
                        formula       |-> win.formula,
                        r_squared     |-> win.r_squared,
                        mse           |-> win.mse,
                        input_columns |-> win.input_columns,
                        output_column |-> PyList(win.output_column),
                        description   |-> description,
                        graph         |-> win.graph]
    IN  IF art[file_path].writable
        THEN [artifacts |-> [art EXCEPT ![file_path] = Artifact(dump(model_data))],
              message |-> "model_saved"]
        ELSE [artifacts |-> art, message |-> "save_error"]

(* ModelLoader.load_model(file_path, test_mode): the value returned and    *)
(* the message box shown.                                                  *)
load_model(art, file_path, test_mode) ==
    IF art[file_path].exists /\ art[file_path].valid
    THEN [path |-> file_path, test_mode |-> test_mode,
          ret |-> PyDict(load(art[file_path].entries)),
          message |-> IF test_mode THEN "" ELSE "model_loaded"]
    ELSE [path |-> file_path, test_mode |-> test_mode, ret |-> PyNone,
          message |-> IF test_mode THEN "" ELSE "load_model_error"]

(* ModelWindow(model_data, input_columns). *)
ModelWindow(model_data, input_columns) ==
    [open |-> TRUE, model_data |-> PyDict(model_data),
     model |-> get(model_data, "model", NoModel),
     input_columns |-> input_columns,
     description |-> get(model_data, "description",
                        <<"No", " ", "description", " ", "available.">>),
     predicted_value_output |-> ""]

(* A dialog that would give the window the bundle's own input columns. *)
open_model_dialog_bundle_columns(v, r) ==
    IF r.ret.type = "dict" /\ DOMAIN r.ret.dict # {}
    THEN [v EXCEPT !.model_window = ModelWindow(r.ret.dict, get(r.ret.dict, "input_columns", <<>>)),
                   !.message = r.message]
    ELSE [v EXCEPT !.message = r.message]

(* DataViewer.open_model_dialog; r is what load_model returned. *)
open_model_dialog(v, r) ==
    IF r.ret.type = "dict" /\ DOMAIN r.ret.dict # {}
    THEN [v EXCEPT !.model_window = ModelWindow(r.ret.dict, v.input_columns),
                   !.message = r.message]
    ELSE [v EXCEPT !.message = r.message]

(* float(value.strip()) of a field of the entry. *)
float(value) == CASE value = "4" -> Return(Num(4))
                  [] value = " 1" -> Return(Num(1))
                  [] OTHER -> Raise("ValueError")

(* A handler that would parse the values before it counts them. *)
handle_prediction_parse_first(win, input_values, strict) ==
    LET values == [i \in DOMAIN input_values |-> float(input_values[i]).val]
    IN  [win EXCEPT !.predicted_value_output =
            IF \E i \in DOMAIN input_values : float(input_values[i]).exc # ""
            THEN "Error: Please enter only numeric values."
            ELSE IF Len(input_values) # Len(win.input_columns)
            THEN "Error: You must enter exactly " \o ToString(Len(win.input_columns))
                     \o " values separated by commas."
            ELSE IF ~win.model.fitted THEN "Error: The model is not available."
            ELSE IF Len(win.model.coef) # Len(values) THEN "Error: ValueError"
            ELSE IF strict /\ win.model.feature_names # <<>>
                           /\ win.model.feature_names # win.input_columns
            THEN "Error: ValueError"
            ELSE format_2f(predict(win.model, values))]

(* handle_prediction of a ResultWindow or a ModelWindow; input_values is   *)
(* the entry split at its commas.  strict: the installed scikit-learn      *)
(* rejects a frame whose column names differ from those seen in fit.       *)
handle_prediction(win, input_values, strict) ==
    LET values == [i \in DOMAIN input_values |-> float(input_values[i]).val]
    IN  [win EXCEPT !.predicted_value_output =
            IF Len(input_values) # Len(win.input_columns)
            THEN "Error: You must enter exactly " \o ToString(Len(win.input_columns))
                     \o " values separated by commas."
            ELSE IF \E i \in DOMAIN input_values : float(input_values[i]).exc # ""
            THEN "Error: Please enter only numeric values."
            ELSE IF ~win.model.fitted THEN "Error: The model is not available."
            ELSE IF Len(win.model.coef) # Len(values) THEN "Error: ValueError"
            ELSE IF strict /\ win.model.feature_names # <<>>
                           /\ win.model.feature_names # win.input_columns
            THEN "Error: ValueError"
            ELSE format_2f(predict(win.model, values))]

(***************************************************************************)
(* The files of a session.                                                 *)
(***************************************************************************)
SeqsUpTo(S, n) == UNION {[1..m -> S] : m \in 0..n}

CsvFile(stem, ext, cols, rows) == File(Path(stem, ext), TRUE, Body("csv", cols, rows, ""))

(* The files the user of the wizard chooses among. *)
Catalog ==
    { CsvFile("a", ".csv", <<"a", "b">>,
              << <<Str("1"), Str("p")>>, <<Str(""), Str("q")>>, <<Str("3"), Str("p")>> >>),
      CsvFile("b", ".csv", <<"c">>, << <<Str("1")>>, <<Str("2")>> >>),
      CsvFile("e", ".csv", <<"d">>, <<>>),
      File(Path("t", ".txt"), TRUE, NoBody) }

(* Every source file of at most MaxRows data rows over two columns. *)
CsvRows == {<<Str(x), Str(y)>> : x \in {"", "1", "2"}, y \in {"", "p"}}

TypedRows == {<<x, y>> : x \in {Null, Num(1)}, y \in {Null, Str("p")}}

Exts == {".csv", ".CSV", ".xlsx", ".XLSX", ".xls", ".sqlite", ".db", ".Db", ".txt", ".TXT", ".json", ""}

AllFiles ==
    {File(Path("gone", e), FALSE, NoBody) : e \in Exts}
    \cup {File(Path("u", e), TRUE, NoBody) : e \in Exts \ {x \in Exts : lower(x) \in SupportedExts}}
    \cup {CsvFile("u", ".csv", <<"a", "b">>, r) : r \in SeqsUpTo(CsvRows, MaxRows)}
    \cup {File(Path("u", e), TRUE, Body(k, <<>>, <<>>, "")) :
             e \in {".csv", ".CSV"}, k \in {"zero", "corrupt"}}
    \cup {CsvFile("u", ".CSV", <<"a", "b">>, << <<Str("1"), Str("")>> >>),
          CsvFile("u", ".csv", <<"a", "b">>, << <<Str("1"), Str("NA")>>, <<Str("2"), Str("p")>> >>),
          CsvFile("u", ".csv", <<"b", "a">>, << <<Str("1"), Str("p")>>, <<Str("3"), Str("2")>> >>)}
    \cup {File(Path("u", ".xlsx"), TRUE, Body("excel", <<"a", "b">>, r, "")) :
             r \in SeqsUpTo(TypedRows, MaxRows)}
    \cup {File(Path("u", ".db"), TRUE, Body("sqlite", <<"a", "b">>, r, QueryTable)) :
             r \in SeqsUpTo(TypedRows, MaxRows)}
    \cup {File(Path("u", e), TRUE, Body("excel", <<"b", "a">>, << <<Str("p"), Num(1)>> >>, "")) :
             e \in {".xls", ".XLSX"}}
    \cup {File(Path("u", ".xlsx"), TRUE,
               Body("excel", <<"a", "b">>, << <<Num(1), Str("NA")>>, <<Num(2), Str("p")>> >>, ""))}
    \cup {File(Path("u", e), TRUE, Body("sqlite", <<"b", "a">>, << <<Str("p"), Num(1)>> >>, QueryTable)) :
             e \in {".sqlite", ".Db"}}
    \cup {File(Path("u", ".db"), TRUE, Body("sqlite", <<"a", "b">>, << <<Num(1), Str("p")>> >>, "other"))}

(* The values the user may give for the constant strategy. *)
ConstValues == {Num(5)}

(* The selections a list widget can hold: the items picked, in item order. *)
RECURSIVE SubSeqs(_)
SubSeqs(q) == IF q = <<>> THEN {<<>>}
              ELSE LET r == SubSeqs(Tail(q))
                   IN  r \cup {<<Head(q)>> \o x : x \in r}

(***************************************************************************)
(* EmotionAnalyser/load_data.py.  The single column of a dataset row holds *)
(* a text, a sequence of tokens: a token is one character or one of        *)
(* the literal pieces the two patterns of clean look for.  A row is a      *)
(* function from column names to values.                                   *)
(***************************************************************************)
Digits == {"0", "1", "2", "3", "4", "5", "6", "7", "8", "9"}

int(digit) == CASE digit = "0" -> 0 [] digit = "1" -> 1 [] digit = "2" -> 2
                [] digit = "3" -> 3 [] digit = "4" -> 4 [] digit = "5" -> 5
                [] digit = "6" -> 6 [] digit = "7" -> 7 [] digit = "8" -> 8
                [] digit = "9" -> 9

(* The first position from p on that holds no whitespace (\s* is greedy). *)
RECURSIVE skip_whitespace(_, _)
skip_whitespace(text, p) ==
    IF p <= Len(text) /\ text[p] \in Whitespace THEN skip_whitespace(text, p + 1) ELSE p

NoMatch == [matched |-> FALSE, group |-> <<>>]

(* re.search(r"\[/INST\]\s*(\d)", raw_text): the pattern without its end. *)
match_label_open(raw_text) ==
    LET at(i) == LET p == skip_whitespace(raw_text, i + 1)
                 IN  IF raw_text[i] = "[/INST]" /\ p <= Len(raw_text) /\ raw_text[p] \in Digits
                     THEN [matched |-> TRUE, group |-> <<raw_text[p]>>]
                     ELSE NoMatch
        starts == {i \in DOMAIN raw_text : at(i).matched}
    IN  IF starts = {} THEN NoMatch
        ELSE at(CHOOSE i \in starts : \A j \in starts : i <= j)

(* re.search(r"\[/INST\]\s*(\d)\s*</s>", raw_text): the leftmost match. *)
match_label(raw_text) ==
    LET at(i) == LET p == skip_whitespace(raw_text, i + 1)
                     q == skip_whitespace(raw_text, p + 1)
                 IN  IF /\ raw_text[i] = "[/INST]"
                        /\ p <= Len(raw_text) /\ raw_text[p] \in Digits
                        /\ q <= Len(raw_text) /\ raw_text[q] = "</s>"
                     THEN [matched |-> TRUE, group |-> <<raw_text[p]>>]
                     ELSE NoMatch
        starts == {i \in DOMAIN raw_text : at(i).matched}
    IN  IF starts = {} THEN NoMatch
        ELSE at(CHOOSE i \in starts : \A j \in starts : i <= j)

(* re.search(r"Frase:\s*(.+?)\. Clasifica", raw_text): the leftmost match, *)
(* with the longest run of whitespace that allows one and then the         *)
(* shortest group; the dot matches no newline.                             *)
match_frase(raw_text) ==
    LET ends(p) == {e \in p .. Len(raw_text) - 1 :
                       /\ raw_text[e + 1] = ". Clasifica"
                       /\ \A j \in p .. e : raw_text[j] # "\n"}
        group_starts(i) == {p \in i + 1 .. skip_whitespace(raw_text, i + 1) : ends(p) # {}}
        at(i) == IF raw_text[i] = "Frase:" /\ group_starts(i) # {}
                 THEN LET p == CHOOSE x \in group_starts(i) : \A y \in group_starts(i) : y <= x
                          e == CHOOSE x \in ends(p) : \A y \in ends(p) : x <= y
                      IN  [matched |-> TRUE, group |-> SubSeq(raw_text, p, e)]
                 ELSE NoMatch
        starts == {i \in DOMAIN raw_text : at(i).matched}
    IN  IF starts = {} THEN NoMatch
        ELSE at(CHOOSE i \in starts : \A j \in starts : i <= j)

column_name == "text"

clean(example) ==
    LET raw_text == example[column_name]
        match_frase_ == match_frase(raw_text)
        match_label_ == match_label(raw_text)
    IN  [frase |-> IF match_frase_.matched THEN strip(match_frase_.group) ELSE <<>>,
         label |-> IF match_label_.matched THEN int(match_label_.group[1]) ELSE -1]

(* dataset.map(clean) adds the returned columns to the row. *)
map_clean(example) ==
    LET out == clean(example)
    IN  [c \in DOMAIN example \cup {"frase", "label"} |->
            IF c = "frase" THEN out.frase ELSE IF c = "label" THEN out.label ELSE example[c]]

remove_columns(example, names) == [c \in DOMAIN example \ names |-> example[c]]

(* The names are written without their accents. *)
label2emotion ==
    [l \in 0 .. 6 |-> CASE l = 0 -> "ira" [] l = 1 -> "satisfaccion" [] l = 2 -> "tristeza"
                        [] l = 3 -> "culpa" [] l = 4 -> "verguenza" [] l = 5 -> "miedo"
                        [] l = 6 -> "asco"]

add_emotion(example) ==
    [c \in DOMAIN example \cup {"emocion"} |->
        IF c = "emocion" THEN get(label2emotion, example["label"], "desconocido")
        ELSE example[c]]

(* The script's dataset, one row of it: the row as loaded, the row now, and *)
(* the statements of the script already run on it.                         *)
NoDataset == [stage |-> "none"]

(***************************************************************************)
(* State.  viewer is the DataViewer; files are the files on disk; imported *)
(* is the result of the last direct call of import_data, connections the   *)
(* paths of the SQLite connections that call left open, dataset the row    *)
(* of the emotion dataset the script works on, regression the              *)
(* arguments and result of the last direct call of linear_regression,      *)
(* artifacts the files of the model directory and loaded the result of     *)
(* the last call of ModelLoader.load_model.  History:                      *)
(* lastOp and outcome name the last handler run and how it ended; cleaned *)
(* tells whether a cleaning strategy has been applied since the table was  *)
(* last loaded.                                                            *)
(***************************************************************************)
VARIABLES viewer, files, imported, lastOp, outcome, cleaned, regression, artifacts, loaded,
          connections, dataset

vars == <<viewer, files, imported, lastOp, outcome, cleaned, regression, artifacts, loaded,
          connections, dataset>>

NotCalled == Raise("not called")

InitCommon ==
    /\ viewer = InitViewer
    /\ regression = NoRegression
    /\ imported = NotCalled
    /\ lastOp = "__init__"
    /\ outcome = ""
    /\ cleaned = FALSE
    /\ artifacts = InitArtifacts
    /\ loaded = NotLoaded
    /\ connections = {}
    /\ dataset = NoDataset

Init == InitCommon /\ files = Catalog

InitData == InitCommon /\ \E f \in AllFiles : files = {f}

(* The main window is up and no slot has raised. *)
Running == ~viewer.welcome_visible /\ ~viewer.crashed

Fresh == [viewer EXCEPT !.message = ""]

Start ==
    /\ viewer.welcome_visible
    /\ viewer' = delete_welcome(Fresh)
    /\ lastOp' = "delete_welcome"
    /\ outcome' = ""
    /\ UNCHANGED <<dataset, connections, regression, artifacts, loaded, files, imported, cleaned>>

LoadOutcome(v, f, again) ==
    IF v.last_file_path = f.path /\ ~again THEN "declined"
    ELSE IF import_data(f).exc # "" \/ empty(import_data(f).val) THEN "failed"
    ELSE "loaded"

OpenFileDialog ==
    /\ Running
    /\ viewer.move = 1
    /\ viewer.load_button_visible \/ viewer.back_button_visible
    /\ \E f \in {g \in files : g.exists}, again \in BOOLEAN :
          /\ again \/ viewer.last_file_path = f.path
          /\ viewer' = open_file_dialog(Fresh, f, again)
          /\ outcome' = LoadOutcome(viewer, f, again)
          /\ cleaned' = IF outcome' = "loaded" THEN FALSE ELSE cleaned
    /\ lastOp' = "open_file_dialog"
    /\ UNCHANGED <<dataset, connections, regression, artifacts, loaded, files, imported>>

GoNext ==
    /\ Running
    /\ viewer.next_enabled
    /\ viewer' = next(Fresh)
    /\ lastOp' = "next"
    /\ outcome' = ""
    /\ UNCHANGED <<dataset, connections, regression, artifacts, loaded, files, imported, cleaned>>

GoBack ==
    /\ Running
    /\ viewer.return_enabled
    /\ viewer' = back(Fresh)
    /\ lastOp' = "back"
    /\ outcome' = ""
    /\ UNCHANGED <<dataset, connections, regression, artifacts, loaded, files, imported, cleaned>>

SelectOption ==
    /\ Running
    /\ viewer.move = 2
    /\ viewer.options_enabled
    /\ \E i \in Options : viewer' = setCurrentIndex(Fresh, i)
    /\ lastOp' = "preprocessing_button"
    /\ outcome' = ""
    /\ UNCHANGED <<dataset, connections, regression, artifacts, loaded, files, imported, cleaned>>

ApplyPreprocessing ==
    /\ Running
    /\ viewer.move = 2
    /\ viewer.apply_enabled
    /\ \E value \in ConstValues, ok \in BOOLEAN :
          /\ viewer.option_index # 4 => ok
          /\ viewer' = confirm_preprocessing(Fresh, value, ok)
          /\ outcome' = IF viewer'.message = "preprocessing_error" THEN "failed"
                        ELSE IF ok THEN "applied" ELSE "cancelled"
    /\ cleaned' = (cleaned \/ outcome' # "failed")
    /\ lastOp' = "confirm_preprocessing"
    /\ UNCHANGED <<dataset, connections, regression, artifacts, loaded, files, imported>>

ConfirmSelection ==
    /\ Running
    /\ viewer.move = 3
    /\ \E fs \in SubSeqs(viewer.selector_items), ts \in SubSeqs(viewer.selector_items) :
          /\ Len(ts) <= 1
          /\ viewer' = confirm_selection(Fresh, fs, ts)
    /\ lastOp' = "confirm_selection"
    /\ outcome' = ""
    /\ UNCHANGED <<dataset, connections, regression, artifacts, loaded, files, imported, cleaned>>

ShowResults ==
    /\ Running
    /\ viewer.move = 3
    /\ viewer' = show_results(Fresh)
    /\ lastOp' = "show_results"
    /\ outcome' = IF viewer'.message = "model_created" THEN "created" ELSE "failed"
    /\ UNCHANGED <<dataset, connections, regression, artifacts, loaded, files, imported, cleaned>>

(* A direct call of import_data(path), as the test suite makes. *)
ImportCall ==
    /\ \E f \in files : /\ imported' = import_data(f)
                         /\ connections' = connections_left(f)
    /\ lastOp' = "import_data"
    /\ outcome' = ""
    /\ UNCHANGED <<dataset, regression, artifacts, loaded, viewer, files, cleaned>>

Next ==
    \/ Start
    \/ OpenFileDialog
    \/ GoNext
    \/ GoBack
    \/ SelectOption
    \/ ApplyPreprocessing
    \/ ConfirmSelection
    \/ ShowResults

Spec == Init /\ [][Next]_vars

NextData ==
    \/ ImportCall
    \/ Start
    \/ OpenFileDialog
    \/ GoNext
    \/ GoBack
    \/ SelectOption
    \/ ApplyPreprocessing

SpecData == InitData /\ [][NextData]_vars

(***************************************************************************)
(* next() and back() as methods: called on a viewer whose step, flag and   *)
(* the attributes drive_through reads take every value.                    *)
(***************************************************************************)
InitNav ==
    /\ \E m \in {1, 2, 3}, e \in BOOLEAN, s \in BOOLEAN, shown \in BOOLEAN,
          d \in {"unset", "True", "False"} :
          viewer = [InitViewer EXCEPT !.welcome_visible = FALSE, !.move = m,
                                      !.empty_values = e, !.nan_solved = s, !.nan_data = d,
                                      !.table_is_df = shown,
                                      !.df = IF shown THEN Frame(<<"a">>, {"a"}, << <<Num(1)>> >>)
                                             ELSE NoneDf,
                                      !.data_table = IF shown
                                                     THEN Frame(<<"a">>, {"a"}, << <<Num(1)>> >>)
                                                     ELSE NoneDf]
    /\ files = {}
    /\ regression = NoRegression
    /\ imported = NotCalled
    /\ lastOp = "__init__"
    /\ outcome = ""
    /\ cleaned = FALSE
    /\ artifacts = InitArtifacts
    /\ loaded = NotLoaded
    /\ connections = {}
    /\ dataset = NoDataset

CallNext ==
    /\ ~viewer.crashed
    /\ viewer' = next(Fresh)
    /\ lastOp' = "next"
    /\ UNCHANGED <<dataset, connections, regression, artifacts, loaded, files, imported, outcome, cleaned>>

CallBack ==
    /\ ~viewer.crashed
    /\ viewer' = back(Fresh)
    /\ lastOp' = "back"
    /\ UNCHANGED <<dataset, connections, regression, artifacts, loaded, files, imported, outcome, cleaned>>

NextNav ==
    \/ CallNext
    \/ CallBack

SpecNav == InitNav /\ [][NextNav]_vars

(***************************************************************************)
(* linear_regression as a function: called on a table of columns x         *)
(* (numeric), g (text, possibly with numbers and nulls among the texts)    *)
(* and y (numeric), and called again on the table the first call left.     *)
(***************************************************************************)
(* Largest number of rows of a table given to linear_regression. *)
MaxFitRows == 6

XCell(kind, i) == CASE kind = "linear" -> Num(i)
                    [] kind = "constant" -> Num(1)
                    [] OTHER -> IF i = 2 THEN Null ELSE Num(i)

GCell(kind, i) == CASE kind = "text" -> IF i % 2 = 1 THEN Str("p") ELSE Str("q")
                    [] OTHER -> CASE i % 4 = 1 -> Num(1)
                                  [] i % 4 = 2 -> Str("1")
                                  [] i % 4 = 3 -> Null
                                  [] OTHER -> Str("p")

YCell(kind, i) == IF kind = "linear" THEN Num(2 * i) ELSE Num((i * i) % 5)

FitTables ==
    {Frame(<<"x", "g", "y">>, {"x", "y"},
           [i \in 1..n |-> <<XCell(xk, i), GCell(gk, i), YCell(yk, i)>>]) :
        n \in 0..MaxFitRows, xk \in {"linear", "constant", "gap"},
        gk \in {"text", "mixed"}, yk \in {"linear", "curve"}}

FitInputs == {<<>>, <<"x">>, <<"g">>, <<"x", "g">>, <<"g", "x">>}

FitOutputs == {PyStr("y"), PyList(<<"y">>), PyList(<<"g">>), PyStr("z")}

(* The states numpy's global generator may be in. *)
Generators == {0, 1}

InitFit ==
    /\ viewer = InitViewer
    /\ files = {}
    /\ imported = NotCalled
    /\ lastOp = "__init__"
    /\ outcome = ""
    /\ cleaned = FALSE
    /\ artifacts = InitArtifacts
    /\ loaded = NotLoaded
    /\ connections = {}
    /\ dataset = NoDataset
    /\ \E data \in FitTables, input_columns \in FitInputs, output_columns \in FitOutputs :
          regression = Arguments(data, input_columns, output_columns)

Call(g) ==
    \E r \in {linear_regression(regression.data, regression.input_columns,
                                regression.output_columns, g)} :
        /\ regression' = [regression EXCEPT !.calls = @ + 1, !.data = r.data,
                                            !.exc = r.exc, !.val = r.val]
        /\ lastOp' = "linear_regression"
        /\ outcome' = IF r.exc = "" THEN "created" ELSE "failed"
        /\ UNCHANGED <<dataset, connections, viewer, files, imported, cleaned, artifacts, loaded>>

CallRegression == regression.calls = 0 /\ \E g \in Generators : Call(g)

CallRegressionAgain == regression.calls = 1 /\ \E g \in Generators : Call(g)

NextFit ==
    \/ CallRegression
    \/ CallRegressionAgain

SpecFit == InitFit /\ [][NextFit]_vars

(***************************************************************************)
(* ModelSaver.save_model and ModelLoader.load_model as methods, called on  *)
(* the model directory with the fields of a result window.                 *)
(***************************************************************************)
(* The texts the user may leave in the description box. *)
Descriptions ==
    {<<>>, <<" ", "\n">>, <<" ", "Test", " ", "model", " ">>, <<"Test", " ", "model">>,
     <<"\t", "x">>}

StoreTable ==
    Frame(<<"x", "g", "y">>, {"x", "y"},
          [i \in 1..5 |-> <<XCell("linear", i), GCell("text", i), YCell("curve", i)>>])

(* The windows a model is saved from. *)
Savers ==
    {[ResultWindow(ic, <<"y">>, linear_regression(StoreTable, ic, PyList(<<"y">>), 0).val)
         EXCEPT !.text_box = d] : ic \in {<<"x">>, <<"x", "g">>}, d \in Descriptions}

InitStore == InitCommon /\ files = {}

(* ModelSaver(...).save_model(file_path) with the fields of a window. *)
SaveCall ==
    /\ \E win \in Savers, file_path \in {"saved.joblib", "locked.joblib"} :
          LET r == save_model(win, artifacts, file_path)
          IN  /\ viewer' = [Fresh EXCEPT !.result_window = win, !.message = r.message]
              /\ artifacts' = r.artifacts
              /\ outcome' = file_path
    /\ lastOp' = "save_model"
    /\ UNCHANGED <<dataset, connections, regression, loaded, files, imported, cleaned>>

(* A direct call of ModelLoader.load_model(path, test_mode). *)
LoadModelCall ==
    /\ \E file_path \in DOMAIN artifacts, test_mode \in BOOLEAN :
          /\ loaded' = load_model(artifacts, file_path, test_mode)
          /\ viewer' = [Fresh EXCEPT !.message = loaded'.message]
          /\ outcome' = file_path
    /\ lastOp' = "load_model"
    /\ UNCHANGED <<dataset, connections, regression, artifacts, files, imported, cleaned>>

NextStore ==
    \/ SaveCall
    \/ LoadModelCall

SpecStore == InitStore /\ [][NextStore]_vars

(***************************************************************************)
(* A session that creates, saves, loads and uses models.                   *)
(***************************************************************************)
ModelCatalog ==
    { CsvFile("m", ".csv", <<"x", "w", "y">>,
              << <<Str("1"), Str("1"), Str("3")>>, <<Str("2"), Str("1"), Str("5")>>,
                 <<Str("3"), Str("2"), Str("8")>>, <<Str("4"), Str("2"), Str("10")>>,
                 <<Str("5"), Str("3"), Str("13")>> >>) }

(* A table of one text column with a missing value, and a file of an       *)
(* unsupported format.                                                     *)
CleanCatalog ==
    { CsvFile("n", ".csv", <<"g">>, << <<Str("p")>>, <<Str("")>> >>),
      File(Path("t", ".txt"), TRUE, NoBody) }

InitModel == InitCommon /\ files \in {ModelCatalog, CleanCatalog}

(* The paths the save dialog may return; "" when it is cancelled. *)
SavePaths == {"", "saved.joblib", "locked.joblib"}

(* The entries of the prediction field, split at their commas. *)
Entries == {<<"4">>, <<"4", " 1">>, <<"abc">>}

(* The features and the target the user may select. *)
FeatureChoices == {<<>>, <<"x">>, <<"x", "w">>}

TargetChoices == {<<"y">>}

(* DataViewer.confirm_selection on these selections. *)
ConfirmColumns ==
    /\ Running
    /\ viewer.move = 3
    /\ \E fs \in FeatureChoices, ts \in TargetChoices :
          /\ Range(fs) \cup Range(ts) \subseteq Range(viewer.selector_items)
          /\ viewer' = confirm_selection(Fresh, fs, ts)
    /\ lastOp' = "confirm_selection"
    /\ outcome' = ""
    /\ UNCHANGED <<dataset, connections, regression, artifacts, loaded, files, imported, cleaned>>

(* ResultWindow.save_model: the Save Model button and the dialog; the      *)
(* description box is left as it is.                                       *)
SaveModel ==
    /\ Running
    /\ viewer.result_window.open
    /\ \E file_path \in SavePaths :
          LET r == save_model(viewer.result_window, artifacts, file_path)
          IN  /\ viewer' = [Fresh EXCEPT !.message = IF file_path = "" THEN "" ELSE r.message]
              /\ artifacts' = IF file_path = "" THEN artifacts ELSE r.artifacts
    /\ lastOp' = "save_model"
    /\ outcome' = ""
    /\ UNCHANGED <<dataset, connections, regression, loaded, files, imported, cleaned>>

(* DataViewer.open_model_dialog: the Load Model button of step 1; "" when  *)
(* the dialog is cancelled.                                                *)
OpenModelDialog ==
    /\ Running
    /\ viewer.move = 1
    /\ \E file_path \in {""} \cup {p \in DOMAIN artifacts : artifacts[p].exists} :
          IF file_path = "" THEN viewer' = Fresh /\ loaded' = loaded
          ELSE /\ loaded' = load_model(artifacts, file_path, FALSE)
               /\ viewer' = open_model_dialog(Fresh, loaded')
    /\ lastOp' = "open_model_dialog"
    /\ outcome' = ""
    /\ UNCHANGED <<dataset, connections, regression, artifacts, files, imported, cleaned>>

(* ResultWindow.handle_prediction. *)
PredictResult ==
    /\ Running
    /\ viewer.result_window.open
    /\ \E input_values \in Entries, strict \in BOOLEAN :
          viewer' = [Fresh EXCEPT !.result_window =
                        handle_prediction(viewer.result_window, input_values, strict)]
    /\ lastOp' = "ResultWindow.handle_prediction"
    /\ outcome' = ""
    /\ UNCHANGED <<dataset, connections, regression, artifacts, loaded, files, imported, cleaned>>

(* ModelWindow.handle_prediction. *)
PredictModel ==
    /\ Running
    /\ viewer.model_window.open
    /\ \E input_values \in Entries, strict \in BOOLEAN :
          viewer' = [Fresh EXCEPT !.model_window =
                        handle_prediction(viewer.model_window, input_values, strict)]
    /\ lastOp' = "ModelWindow.handle_prediction"
    /\ outcome' = ""
    /\ UNCHANGED <<dataset, connections, regression, artifacts, loaded, files, imported, cleaned>>

NextModel ==
    \/ Start
    \/ OpenFileDialog
    \/ GoNext
    \/ GoBack
    \/ SelectOption
    \/ ApplyPreprocessing
    \/ ConfirmColumns
    \/ ShowResults
    \/ SaveModel
    \/ OpenModelDialog
    \/ PredictResult
    \/ PredictModel

SpecModel == InitModel /\ [][NextModel]_vars

(***************************************************************************)
(* handle_prediction as a method: called on result and model windows of    *)
(* every number of input columns, with and without a model.                *)
(***************************************************************************)
PredictModels ==
    {NoModel,
     fit(<< <<Num(1)>>, <<Num(2)>>, <<Num(3)>> >>, <<Num(2), Num(4), Num(6)>>, <<>>),
     fit(<< <<Num(1)>>, <<Num(2)>>, <<Num(3)>> >>, <<Num(2), Num(4), Num(6)>>, <<"x">>),
     fit(<< <<Num(1), Num(1)>>, <<Num(2), Num(1)>>, <<Num(3), Num(2)>> >>,
         <<Num(3), Num(5), Num(8)>>, <<"x", "w">>)}

PredictColumns == {<<>>, <<"x">>, <<"w">>, <<"x", "w">>, <<"w", "x">>}

(* The entries of the prediction field, split at their commas: "", "4",    *)
(* " 1", "abc", "4, 1", "4,abc", "abc,4, 1" and "4, 1,4".                     *)
AllEntries ==
    {<<"">>, <<"4">>, <<" 1">>, <<"abc">>, <<"4", " 1">>, <<"4", "abc">>,
     <<"abc", "4", " 1">>, <<"4", " 1", "4">>}

InitPredict ==
    /\ \E m \in PredictModels, ic \in PredictColumns, d \in {"result", "model"} :
          viewer = [InitViewer EXCEPT
             !.welcome_visible = FALSE,
             !.result_window = IF d = "result"
                               THEN [NoWindow EXCEPT !.open = TRUE, !.model = m,
                                                     !.input_columns = ic]
                               ELSE NoWindow,
             !.model_window = IF d = "model"
                              THEN [NoModelWindow EXCEPT !.open = TRUE, !.model = m,
                                                         !.input_columns = ic]
                              ELSE NoModelWindow]
    /\ files = {}
    /\ regression = NoRegression
    /\ imported = NotCalled
    /\ lastOp = "__init__"
    /\ outcome = ""
    /\ cleaned = FALSE
    /\ artifacts = InitArtifacts
    /\ loaded = NotLoaded
    /\ connections = {}
    /\ dataset = NoDataset

CallPredictResult ==
    /\ viewer.result_window.open
    /\ \E input_values \in AllEntries, strict \in BOOLEAN :
          viewer' = [Fresh EXCEPT !.result_window =
                        handle_prediction(viewer.result_window, input_values, strict)]
    /\ lastOp' = "ResultWindow.handle_prediction"
    /\ UNCHANGED <<dataset, connections, regression, artifacts, loaded, files, imported, outcome, cleaned>>

CallPredictModel ==
    /\ viewer.model_window.open
    /\ \E input_values \in AllEntries, strict \in BOOLEAN :
          viewer' = [Fresh EXCEPT !.model_window =
                        handle_prediction(viewer.model_window, input_values, strict)]
    /\ lastOp' = "ModelWindow.handle_prediction"
    /\ UNCHANGED <<dataset, connections, regression, artifacts, loaded, files, imported, outcome, cleaned>>

NextPredict ==
    \/ CallPredictResult
    \/ CallPredictModel

SpecPredict == InitPredict /\ [][NextPredict]_vars

(***************************************************************************)
(* The emotion-dataset script on one row: load_dataset, map(clean),        *)
(* remove_columns, map(add_emotion), in the order of the script.           *)
(***************************************************************************)
(* Longest generated text, in tokens. *)
MaxTokens == 3

Tokens == {"[/INST]", " ", "</s>"} \cup Digits

RECURSIVE Texts(_)
Texts(n) == IF n = 0 THEN {<<>>}
            ELSE LET shorter == Texts(n - 1)
                 IN  shorter \cup {<<t>> \o x : t \in Tokens, x \in shorter}

(* Rows in the layout of Cesar42/EmotionSpanish and variations of them. *)
PromptTexts ==
    { <<"<s>", "[INST]", " ", "Frase:", " ", "x", " ", "y", ". Clasifica", " ", "z", " ",
        "[/INST]", " ", "3", " ", "</s>">>,
      <<"Frase:", "\t", "x", ". Clasifica", "[/INST]", "\n", "7", "</s>">>,
      <<"Frase:", " ", " ", ". Clasifica", "[/INST]", "1", "0", "</s>">>,
      <<"Frase:", "x", "\n", "y", ". Clasifica", "[/INST]", " ", "x", "</s>">>,
      <<"Frase:", ". Clasifica", "Frase:", "y", " ", ". Clasifica", "[/INST]", "x",
        "[/INST]", "2", "</s>", "[/INST]", "5", "</s>">>,
      <<"x", ". Clasifica", "[/INST]", " ", " ", "9", "\t", "</s>", "0">> }

RawTexts == Texts(MaxTokens) \cup PromptTexts

InitEmotion ==
    /\ \E raw_text \in RawTexts :
          dataset = [stage |-> "loaded", raw |-> raw_text,
                     example |-> [c \in {column_name} |-> raw_text]]
    /\ viewer = InitViewer
    /\ files = {}
    /\ regression = NoRegression
    /\ imported = NotCalled
    /\ lastOp = "load_dataset"
    /\ outcome = ""
    /\ cleaned = FALSE
    /\ artifacts = InitArtifacts
    /\ loaded = NotLoaded
    /\ connections = {}

(* dataset_cleaned = dataset.map(clean) *)
MapClean ==
    /\ dataset.stage = "loaded"
    /\ dataset' = [dataset EXCEPT !.stage = "cleaned", !.example = map_clean(dataset.example)]
    /\ lastOp' = "clean"
    /\ UNCHANGED <<viewer, files, imported, outcome, cleaned, regression, artifacts, loaded,
                   connections>>

(* dataset_cleaned = dataset_cleaned.remove_columns([column_name]) *)
RemoveColumns ==
    /\ dataset.stage = "cleaned"
    /\ dataset' = [dataset EXCEPT !.stage = "columns_removed",
                                  !.example = remove_columns(dataset.example, {column_name})]
    /\ lastOp' = "remove_columns"
    /\ UNCHANGED <<viewer, files, imported, outcome, cleaned, regression, artifacts, loaded,
                   connections>>

(* dataset_cleaned = dataset_cleaned.map(add_emotion) *)
MapAddEmotion ==
    /\ dataset.stage = "columns_removed"
    /\ dataset' = [dataset EXCEPT !.stage = "mapped", !.example = add_emotion(dataset.example)]
    /\ lastOp' = "add_emotion"
    /\ UNCHANGED <<viewer, files, imported, outcome, cleaned, regression, artifacts, loaded,
                   connections>>

NextEmotion ==
    \/ MapClean
    \/ RemoveColumns
    \/ MapAddEmotion

SpecEmotion == InitEmotion /\ [][NextEmotion]_vars

(***************************************************************************)
(* Properties.                                                             *)
(***************************************************************************)

(* C1: after any sequence of the actions the wizard offers (start, load or *)
(* reload at step 1, Next, Back, apply a cleaning strategy) the step       *)
(* counter move is 1, 2 or 3.                                              *)
C1_MoveInRange == viewer.move \in {1, 2, 3}

(* A dataset was loaded, cleaned at step 2 and the user came back to step 1. *)
C1_Witness ==
    /\ lastOp = "back"
    /\ viewer.move = 1
    /\ cleaned
    /\ viewer.nan_solved

(* C2: for every dataset with detected missing values, also one loaded     *)
(* after an earlier dataset was cleaned, Next is disabled at the Clean     *)
(* step (move = 2) until a cleaning strategy has been applied to it.       *)
C2_NextDisabledUntilCleaned ==
    (Running /\ viewer.move = 2 /\ HasNull(viewer.df) /\ ~cleaned) => ~viewer.next_enabled

(* The step size of the transition rule and the clamp to [1,3]. *)
StepSize(empty_values) == IF empty_values THEN 1 ELSE 2

Clamp(m) == IF m < 1 THEN 1 ELSE IF m > 3 THEN 3 ELSE m

C4_CleanSkipped ==
    /\ [](viewer.move = 2 => viewer.empty_values)
    /\ [][/\ (GoNext /\ ~viewer.empty_values /\ viewer.move = 1) => viewer'.move = 3
          /\ (GoBack /\ ~viewer.empty_values /\ viewer.move = 3) => viewer'.move = 1]_vars

(* Back at step 1 from step 3 with a loaded table without missing values. *)
C4_Witness ==
    /\ lastOp = "back"
    /\ viewer.move = 1
    /\ ~viewer.empty_values
    /\ ~viewer.df.none

(* C5: whenever show_results is invoked, every name in input_columns and   *)
(* output_column is a column of the current table df.                      *)
C5_SelectedColumnsExist ==
    lastOp = "show_results" =>
        Range(viewer.input_columns) \cup Range(viewer.output_column) \subseteq Range(viewer.df.cols)

(* C6: a failed load (import_data raises, or the imported table is empty)  *)
(* leaves df, last_file_path, empty_values, the displayed table and the    *)
(* step as they were before the load was attempted.                        *)
C6_FailedLoadRestoresState ==
    [][(OpenFileDialog /\ outcome' = "failed") =>
          /\ viewer'.df = viewer.df
          /\ viewer'.last_file_path = viewer.last_file_path
          /\ viewer'.empty_values = viewer.empty_values
          /\ viewer'.data_table = viewer.data_table
          /\ viewer'.move = viewer.move]_vars

(* C7: import_data raises FileNotFoundError for every path that does not   *)
(* exist, whatever its extension, and ValueError for every existing file   *)
(* whose lower-cased extension is not .csv, .xlsx, .xls, .sqlite or .db;   *)
(* no table is returned in either case.                                    *)
C7_ImportErrors ==
    lastOp = "import_data" =>
        \A f \in files :
            /\ ~f.exists => imported = [exc |-> "FileNotFoundError", val |-> NoneDf]
            /\ (f.exists /\ lower(f.path.ext) \notin {".csv", ".xlsx", ".xls", ".sqlite", ".db"})
                  => imported = [exc |-> "ValueError", val |-> NoneDf]

(* import_data was called on a missing path that carries a supported extension. *)
C7_Witness ==
    /\ lastOp = "import_data"
    /\ imported.exc = "FileNotFoundError"
    /\ \E f \in files : ~f.exists /\ f.path.ext = ".csv"

(* A file import_data is meant to read: it exists and holds what its *)
(* extension says; a database holds the table test_table. *)
WellFormed(f) ==
    /\ f.exists
    /\ \/ lower(f.path.ext) = ".csv" /\ f.body.kind = "csv"
       \/ lower(f.path.ext) \in {".xlsx", ".xls"} /\ f.body.kind = "excel"
       \/ lower(f.path.ext) \in {".sqlite", ".db"} /\ f.body.kind = "sqlite"
                                                  /\ f.body.tname = "test_table"

(* The cell c holds the value written as w: a typed cell itself, a CSV *)
(* field as the number or the text it spells, an empty field as null. *)
SameValue(kind, c, w) ==
    IF kind # "csv" THEN c = w
    ELSE \/ w.s = "" /\ c.k = "null"
         \/ w.s \in {"1", "2", "3"} /\ c.k = "num" /\ c.d = 1
                                  /\ ((w.s = "1" /\ c.n = 1) \/ (w.s = "2" /\ c.n = 2) \/ (w.s = "3" /\ c.n = 3))
         \/ w.s # "" /\ c.k = "str" /\ c.s = w.s

SameShape(f, t) ==
    /\ ~t.none
    /\ t.cols = f.body.cols
    /\ Len(t.rows) = Len(f.body.rows)
    /\ \A i \in DOMAIN t.rows : Len(t.rows[i]) = Len(f.body.cols)

C9_DetectMissing ==
    (lastOp = "open_file_dialog" /\ outcome = "loaded") =>
        /\ DOMAIN viewer.missing_data = DOMAIN viewer.df.cols
        /\ \A j \in DOMAIN viewer.df.cols :
               viewer.missing_data[j] = Len(SelectSeq(Column(viewer.df.rows, j), isnull))
        /\ (\A i \in DOMAIN viewer.df.rows : \A j \in DOMAIN viewer.df.cols :
                ~isnull(viewer.df.rows[i][j]))
             => \A j \in DOMAIN viewer.df.cols : viewer.missing_data[j] = 0
        /\ viewer.empty_values <=>
             \E i \in DOMAIN viewer.df.rows : \E j \in DOMAIN viewer.df.cols :
                 isnull(viewer.df.rows[i][j])

(* A table was loaded whose only nulls are in its second column. *)
C9_Witness ==
    /\ lastOp = "open_file_dialog"
    /\ outcome = "loaded"
    /\ viewer.empty_values
    /\ viewer.missing_data = <<0, 2>>

(* u holds exactly the rows of t without a null, unchanged and in order. *)
DroppedExactly(t, u) ==
    LET kept == {i \in RowIdx(t) : \A j \in ColIdx(t) : ~isnull(t.rows[i][j])}
    IN  /\ u.cols = t.cols
        /\ Len(u.rows) = Cardinality(kept)
        /\ \A i \in kept : u.rows[Cardinality({m \in kept : m <= i})] = t.rows[i]

(* C10: remove_missing_values removes exactly the rows with a null in any  *)
(* column and keeps every other row unchanged and in order; fill_with_mean *)
(* and fill_with_median never change the number of rows.                   *)
C10_RowsOnCleaning ==
    [][ApplyPreprocessing =>
          /\ viewer.option_index = 1 => DroppedExactly(viewer.df, viewer'.df)
          /\ viewer.option_index \in {2, 3} => Len(viewer'.df.rows) = Len(viewer.df.rows)]_vars

(* Rows were removed from a loaded table and two different rows are left. *)
C10_Witness ==
    /\ lastOp = "confirm_preprocessing"
    /\ viewer.option_index = 1
    /\ SumSeq(viewer.missing_data) > 0
    /\ Len(viewer.df.rows) = 2
    /\ viewer.df.rows[1] # viewer.df.rows[2]

(* C11: fill_with_mean, fill_with_median and fill_with_constant change     *)
(* only null cells of numeric columns: every cell of a non-numeric column  *)
(* (its nulls included) and every non-null cell of a numeric column has    *)
(* the same value after the operation as before.                           *)
C11_FillChangesOnlyNumericNulls ==
    [][(ApplyPreprocessing /\ viewer.option_index \in {2, 3, 4}) =>
          /\ viewer'.df.cols = viewer.df.cols
          /\ Len(viewer'.df.rows) = Len(viewer.df.rows)
          /\ \A i \in RowIdx(viewer.df) : \A j \in ColIdx(viewer.df) :
                (j \notin num_cols(viewer.df) \/ ~isnull(viewer.df.rows[i][j]))
                    => viewer'.df.rows[i][j] = viewer.df.rows[i][j]]_vars

(* The mean was filled into a numeric column that had nulls, and a null of *)
(* a text column is still there.                                           *)
C11_Witness ==
    /\ lastOp = "confirm_preprocessing"
    /\ outcome = "applied"
    /\ viewer.option_index = 2
    /\ \E j \in num_cols(viewer.df) :
          /\ viewer.missing_data[j] > 0
          /\ \A i \in RowIdx(viewer.df) : ~isnull(viewer.df.rows[i][j])
    /\ \E j \in ColIdx(viewer.df) \ num_cols(viewer.df) :
          \E i \in RowIdx(viewer.df) : isnull(viewer.df.rows[i][j])

(* The rank of the string form of c among the distinct string forms of col. *)
RankOf(col, c) ==
    Cardinality({astype_str(x) : x \in {y \in Range(col) :
                                          StrPos(astype_str(y)) < StrPos(astype_str(c))}})

(* The first call left every numeric column of the table as given and put  *)
(* the ranks, 0..k-1, into every other column.                             *)
EncodedByRank ==
    \A j \in ColIdx(regression.given) :
        LET col == Column(regression.given.rows, j)
            enc == Column(regression.data.rows, j)
        IN  IF j \in num_cols(regression.given) THEN enc = col
            ELSE \A i \in DOMAIN col :
                    /\ enc[i] = Num(RankOf(col, col[i]))
                    /\ enc[i].n \in 0..(Cardinality({astype_str(x) : x \in Range(col)}) - 1)

Ceil02(n) == CHOOSE k \in 0..n : 5 * k >= n /\ 5 * (k - 1) < n

(* C17: for a table of n >= 2 rows linear_regression holds out             *)
(* ceil(0.2 n) rows as the test set and trains on the remaining rows;      *)
(* every row is in exactly one of the two sets; the model is the fit of    *)
(* the training rows only, and MSE and R2 are those of the model's         *)
(* predictions on the test rows only.                                      *)
C17_SplitEightyTwenty ==
    (regression.calls > 0 /\ regression.exc = "") =>
        LET n == Len(regression.data.rows)
            x == features(regression.data, regression.input_columns)
            y == Column(regression.data.rows,
                        ColPos(regression.data, regression.output_columns.names[1]))
            v == regression.val
        IN  /\ n >= 2
            /\ Len(v.x_test) = Ceil02(n)
            /\ Len(v.y_test) = Ceil02(n)
            /\ \E o \in [1..Ceil02(n) -> 1..n] :
                  LET rest == SelectSeq([i \in 1..n |-> i], LAMBDA i : i \notin Range(o))
                  IN  /\ \A a, b \in DOMAIN o : a # b => o[a] # o[b]
                      /\ Len(rest) = n - Ceil02(n)
                      /\ v.x_test = take(x, o)
                      /\ v.y_test = take(y, o)
                      /\ v.model.coef = coef_(take(x, rest), take(y, rest))
                      /\ v.model.intercept = intercept_(take(x, rest), take(y, rest), v.model.coef)
            /\ v.predictions = [i \in DOMAIN v.x_test |-> predict(v.model, v.x_test[i])]
            /\ v.mse = mean_squared_error(v.y_test, v.predictions)
            /\ v.r2 = r2_score(v.y_test, v.predictions)

(* A table of 6 rows was fitted: 2 rows were held out and 4 trained on. *)
C17_Witness ==
    /\ regression.calls = 1
    /\ regression.exc = ""
    /\ Len(regression.data.rows) = 6
    /\ Len(regression.val.x_test) = 2
    /\ regression.val.mse # Num(0)

(* C18: model fitting is reproducible.  Whatever the state of the global   *)
(* generator, a call on the table as given, with the same columns, returns *)
(* the stored split, formula, metrics, predictions and model; and a second *)
(* call, on the table the first call processed, returns what the first     *)
(* returned.                                                               *)
C18_Reproducible ==
    /\ [](regression.calls > 0 =>
            \A g \in Generators :
                LET r == linear_regression(regression.given, regression.input_columns,
                                           regression.output_columns, g)
                IN  r.exc = regression.exc /\ r.val = regression.val)
    /\ [][CallRegressionAgain =>
            /\ regression'.exc = regression.exc
            /\ regression'.val = regression.val
            /\ regression'.data = regression.data]_vars

(* A table with a text input column was fitted twice without an error; the *)
(* first call had replaced the texts by codes.                             *)
C18_Witness ==
    /\ regression.calls = 2
    /\ regression.exc = ""
    /\ regression.input_columns = <<"x", "g">>
    /\ regression.given # regression.data
    /\ Len(regression.val.predictions) = 2

(* The terms k, k+1, ... of the formula: coefficient k with input column k. *)
RECURSIVE TermsFrom(_)
TermsFrom(k) ==
    IF k > Len(regression.input_columns) THEN ""
    ELSE " + (" \o format_2f(regression.val.model.coef[k]) \o ") * "
         \o regression.input_columns[k] \o TermsFrom(k + 1)

(* C19: the formula string returned by linear_regression is the output     *)
(* column's name, " = ", the intercept, then exactly one term per input    *)
(* column in the order of input_columns, pairing the i-th coefficient with *)
(* the i-th input column name; numbers are rendered with 2 decimals.       *)
C19_FormulaText ==
    (regression.calls > 0 /\ regression.exc = "") =>
        /\ Len(regression.val.model.coef) = Len(regression.input_columns)
        /\ regression.val.formula =
              regression.output_columns.names[1] \o " = "
                  \o format_2f(regression.val.model.intercept) \o TermsFrom(1)

(* The rows a loaded model is compared on. *)
PredictionRows(n) == [1..n -> {Num(0), Num(4), Frac(1, 2)}]

C13_LoadedObjectPredicts ==
    (lastOp = "load_model" /\ loaded.test_mode /\ loaded.path = "model.joblib") =>
        /\ loaded.ret.type = "LinearRegression"
        /\ predict(loaded.ret.model, <<Num(4)>>) = Num(8)

(* The texts handle_prediction shows for a failed prediction in a window. *)
PredictionErrors(win) ==
    {"Error: You must enter exactly " \o ToString(Len(win.input_columns))
         \o " values separated by commas.",
     "Error: Please enter only numeric values.",
     "Error: The model is not available.",
     "Error: ValueError"}

(* The values handle_prediction shows for the entries a window accepts. *)
Predictions(win) ==
    {format_2f(predict(win.model, [i \in DOMAIN e |-> float(e[i]).val])) :
        e \in {d \in Entries : /\ win.model.fitted
                               /\ Len(d) = Len(win.input_columns)
                               /\ Len(d) = Len(win.model.coef)
                               /\ \A i \in DOMAIN d : float(d[i]).exc = ""}}

C15_LoadedModelPredicts ==
    [][(lastOp' = "ModelWindow.handle_prediction"
          /\ "input_columns" \in DOMAIN viewer.model_window.model_data.dict)
          => \A e \in Entries :
                (/\ Len(e) = Len(viewer.model_window.model_data.dict["input_columns"])
                 /\ \A i \in DOMAIN e : float(e[i]).exc = "")
                   => \A strict \in BOOLEAN :
                         handle_prediction(viewer.model_window, e, strict).predicted_value_output
                            = format_2f(predict(viewer.model_window.model,
                                                [i \in DOMAIN e |-> float(e[i]).val]))]_vars

(* The bundles of the model directory that ModelSaver wrote. *)
SavedBundles ==
    {load(artifacts[p].entries) :
        p \in {q \in DOMAIN artifacts : /\ artifacts[q].exists /\ artifacts[q].valid
                                        /\ \E i \in DOMAIN artifacts[q].entries :
                                              artifacts[q].entries[i][1] = "graph"}}

(* C20: a regression plot exists exactly in the single-input case: the     *)
(* graph of the result window of a created model, and the graph of every   *)
(* artifact saved from it, is non-null if and only if exactly one input    *)
(* column was selected; with several input columns the graph is null and   *)
(* the window has shown the warning.                                       *)
C20_GraphIffSingleInput ==
    /\ viewer.result_window.open =>
          /\ ~viewer.result_window.graph.none <=> Len(viewer.result_window.input_columns) = 1
          /\ Len(viewer.result_window.input_columns) > 1 =>
                viewer.result_window.graph.none /\ viewer.result_window.warning
          /\ Len(viewer.result_window.input_columns) = 1 => ~viewer.result_window.warning
    /\ \A b \in SavedBundles : ~b["graph"].none <=> Len(b["input_columns"]) = 1

(* A model of two input columns was created and saved: no graph in the    *)
(* window, none in the artifact, and the warning was shown.                *)
C20_Witness ==
    /\ lastOp = "save_model"
    /\ viewer.message = "model_saved"
    /\ Len(viewer.result_window.input_columns) = 2
    /\ viewer.result_window.graph.none
    /\ viewer.result_window.warning
    /\ \E b \in SavedBundles : Len(b["input_columns"]) = 2 /\ b["graph"].none

(* C21: the SQLite connection import_data opens for a .sqlite or .db file  *)
(* is closed when import_data returns, whether the query succeeded or      *)
(* raised: no connection remains open after the call.                      *)
C21_ConnectionReleased == lastOp = "import_data" => connections = {}

(* C22: the description ModelSaver.save_model stores is the given          *)
(* description without its leading and trailing whitespace, or the text    *)
(* "No description provided." when the given description is empty or only  *)
(* whitespace; the stored description is never empty.                      *)
C22_StoredDescription ==
    [][(lastOp' = "save_model" /\ viewer'.message = "model_saved") =>
          LET given  == viewer'.result_window.text_box
              stored == load(artifacts'[outcome'].entries)["description"]
          IN  /\ stored # <<>>
              /\ (\A i \in DOMAIN given : given[i] \in Whitespace)
                    => stored = <<"No", " ", "description", " ", "provided.">>
              /\ (\E i \in DOMAIN given : given[i] \notin Whitespace)
                    => /\ stored[1] \notin Whitespace
                       /\ stored[Len(stored)] \notin Whitespace
                       /\ \E i, j \in DOMAIN given :
                             /\ stored = SubSeq(given, i, j)
                             /\ \A k \in DOMAIN given : (k < i \/ k > j) => given[k] \in Whitespace
      ]_vars

(* A description with whitespace at both ends was saved without it. *)
C22_Witness ==
    /\ lastOp = "save_model"
    /\ viewer.message = "model_saved"
    /\ viewer.result_window.text_box = <<" ", "Test", " ", "model", " ">>
    /\ load(artifacts[outcome].entries)["description"] = <<"Test", " ", "model">>

(* C23: when model creation fails, the wizard's table df has the same      *)
(* column values and types after the failed action as before it, and the   *)
(* result window shown before is not replaced.                             *)
C23_FailedCreationKeepsTable ==
    [][(lastOp' = "show_results" /\ outcome' = "failed") =>
          /\ viewer'.df = viewer.df
          /\ viewer'.result_window = viewer.result_window]_vars

(* The window handle_prediction ran on last, if any. *)
PredictionWindows ==
    (IF viewer.result_window.open THEN {viewer.result_window} ELSE {})
        \cup (IF viewer.model_window.open
              THEN {[viewer.result_window EXCEPT
                        !.model = viewer.model_window.model,
                        !.input_columns = viewer.model_window.input_columns,
                        !.predicted_value_output = viewer.model_window.predicted_value_output]}
              ELSE {})

(* What handle_prediction shows in win for the entry e. *)
Shown(win, e, strict) == handle_prediction(win, e, strict).predicted_value_output

(* C24: handle_prediction of both windows shows a predicted value only     *)
(* when the entry splits into exactly len(input_columns) items, every item *)
(* parses as a number and a model is present; otherwise it shows an error  *)
(* text without calling the model, checking the count first, then the      *)
(* parsing, then the presence of the model.                                *)
C24_PredictionChecks ==
    \A win \in PredictionWindows :
        /\ \A e \in AllEntries, strict \in BOOLEAN :
              LET count   == Len(e) = Len(win.input_columns)
                  numeric == \A i \in DOMAIN e : float(e[i]).exc = ""
              IN  /\ Shown(win, e, strict) \notin PredictionErrors(win)
                        => count /\ numeric /\ win.model.fitted
                  /\ ~count => Shown(win, e, strict) =
                        "Error: You must enter exactly " \o ToString(Len(win.input_columns))
                            \o " values separated by commas."
                  /\ (count /\ ~numeric) => Shown(win, e, strict) =
                        "Error: Please enter only numeric values."
                  /\ (count /\ numeric /\ ~win.model.fitted) => Shown(win, e, strict) =
                        "Error: The model is not available."
                  /\ ~(count /\ numeric) =>
                        \A m \in PredictModels :
                            Shown([win EXCEPT !.model = m], e, strict) = Shown(win, e, strict)
        /\ lastOp \in {"ResultWindow.handle_prediction", "ModelWindow.handle_prediction"}
              => \E e \in AllEntries, strict \in BOOLEAN :
                    win.predicted_value_output = Shown(win, e, strict)

(* A numeric entry of the right length was given to a model window that    *)
(* has no model.                                                           *)
C24_Witness ==
    /\ lastOp = "ModelWindow.handle_prediction"
    /\ viewer.model_window.input_columns = <<"x", "w">>
    /\ ~viewer.model_window.model.fitted
    /\ viewer.model_window.predicted_value_output = "Error: The model is not available."

(* C25: the Clean step (move = 2) and the Model step (move = 3) are entered
   only after a dataset has been loaded and displayed: in every reachable
   state with move 2 or 3 data_table is not None; at step 1 the Next button is
   enabled only if data_table is not None; and after construction the Next
   button is disabled. *)
C25_StepsNeedDataset ==
    /\ viewer.move \in {2, 3} => ~viewer.data_table.none
    /\ (viewer.move = 1 /\ viewer.next_enabled) => ~viewer.data_table.none
    /\ lastOp = "__init__" => ~viewer.next_enabled

C25_Witness ==
    /\ viewer.move = 3
    /\ ~viewer.data_table.none
    /\ lastOp = "next"

(* C26: whenever confirm_preprocessing completes without error and marks the
   missing values as solved (nan_solved true), the table df contains no null
   cell, whatever the strategy and whatever the columns of the table. *)
C26_SolvedMeansNoNull ==
    (lastOp = "confirm_preprocessing" /\ outcome = "applied" /\ viewer.nan_solved) =>
        \A i \in DOMAIN viewer.df.rows : \A j \in DOMAIN viewer.df.cols :
            ~isnull(viewer.df.rows[i][j])

(* C27: when the user cancels the constant-value dialog, df is unchanged and
   the cleaning is not recorded as applied: nan_solved stays false and Next
   stays disabled at the Clean step. *)
C27_CancelledConstant ==
    [][(lastOp' = "confirm_preprocessing" /\ outcome' = "cancelled") =>
          /\ viewer'.df = viewer.df
          /\ viewer'.nan_solved = viewer.nan_solved
          /\ viewer'.next_enabled = viewer.next_enabled]_vars

(* C28: nan_data, which __init__ does not assign, is assigned whenever it is
   read: in every reachable state at the Clean step (move = 2), where
   steps_guide reads it, detect_missing_values or confirm_preprocessing has
   set it, and the read has not failed. *)
C28_NanDataAssigned ==
    /\ viewer.move = 2 => (viewer.nan_data # "unset" /\ ~viewer.crashed)
    /\ viewer.empty_values => viewer.nan_data # "unset"

C28_Witness ==
    /\ viewer.move = 2
    /\ lastOp = "back"
    /\ viewer.nan_data = "False"

(* C29: confirm_selection with an incomplete selection (no input column or no
   output column selected) shows the warning and leaves the previously
   confirmed input_columns and output_column unchanged. *)
C29_IncompleteSelectionRejected ==
    [][(lastOp' = "confirm_selection" /\ viewer'.message = "incomplete_selection") =>
          /\ viewer'.input_columns = viewer.input_columns
          /\ viewer'.output_column = viewer.output_column]_vars

(* The label pattern occurs in the text: "[/INST]", whitespace, one digit, *)
(* whitespace, "</s>".                                                     *)
LabelPattern(text) ==
    \E i, p, q \in DOMAIN text :
        /\ i < p /\ p < q
        /\ text[i] = "[/INST]" /\ text[p] \in Digits /\ text[q] = "</s>"
        /\ \A j \in (i + 1 .. p - 1) \cup (p + 1 .. q - 1) : text[j] \in Whitespace

(* C30: every cleaned row gets a label in -1 .. 9, which is -1 when no
   label pattern matches, and an emotion that is the mapped name when the
   label is in 0 .. 6 and "desconocido" for every other label; the mapping is
   defined on all of 0 .. 6 and gives them distinct names. *)
C30_LabelAndEmotion ==
    /\ dataset.stage \in {"cleaned", "columns_removed", "mapped"} =>
          /\ dataset.example["label"] \in -1 .. 9
          /\ ~LabelPattern(dataset.raw) => dataset.example["label"] = -1
          /\ LabelPattern(dataset.raw) => dataset.example["label"] \in 0 .. 9
    /\ dataset.stage = "mapped" =>
          /\ dataset.example["label"] \in 0 .. 6 =>
                dataset.example["emocion"] = label2emotion[dataset.example["label"]]
          /\ dataset.example["label"] \notin 0 .. 6 =>
                dataset.example["emocion"] = "desconocido"
          /\ DOMAIN dataset.example = {"frase", "label", "emocion"}
    /\ DOMAIN label2emotion = 0 .. 6
    /\ \A a, b \in 0 .. 6 : label2emotion[a] = label2emotion[b] => a = b

C30_Witness ==
    /\ dataset.stage = "mapped"
    /\ dataset.raw = <<"x", ". Clasifica", "[/INST]", " ", " ", "9", "\t", "</s>", "0">>
    /\ dataset.example["frase"] = <<>>
    /\ dataset.example["label"] = 9
    /\ dataset.example["emocion"] = "desconocido"

====
